---- MODULE Spec2Model ----
(***************************************************************************)
(* SynLedger core: Block / Transaction primitives, the fork-aware Ledger   *)
(* (Chain Store), the Consensus coordinator and the participant records    *)
(* of the PoSyg engine it touches.                                         *)
(*                                                                         *)
(* Strings that are only compared are modelled as tuples: the empty        *)
(* std::string is << >>, the genesis previous hash "0" is <<"0">>, and a   *)
(* SHA-256 digest of some content is <<"sha256", content>> (the digest is  *)
(* never empty and is taken to be injective in its input string).          *)
(***************************************************************************)
EXTENDS Integers, Sequences, FiniteSets, TLC

\* ------------------------------------------------------------------ bounds
MaxChain == 3
MaxForkLen == 2
MaxTxPerBlock == 1
MaxBlocks == 2
MaxReq == 2

MaxValidators == 3
NumParticipants == 2
MaxRounds == 2
MaxCycles == 1
MaxSlashes == 1
MaxWorkers == 2
MaxSubnets == 2
MaxSubnetNodes == 3
MaxNodeId == 3
MaxMerkleTxs == 3
MaxProposals == 1
MaxVotes == 2

\* amounts (synergy, reward, penalty) are counted in 1/Scale units; the
\* factors 1.05 and 1.02 stay exact for the rounds explored
Scale == 100 * 100

\* ------------------------------------------------------- program constants
INITIAL_SYNERGY == 100
SLASH_PENALTY == 100
PARTICIPANT_HONEST == 1
PARTICIPANT_DISHONEST == 0
MAX_ECONOMIC_ACTIVITY == 10
GenesisRequiredSignatures == 1
RoundRequiredSignatures == 2
PruneWindow == 10
MainSubnets == 5
REWARD_INCREMENT == 5
PENALTY_INCREMENT == 5
INITIAL_RESTORE_SYNERGY == 50
\* PoSygEngine::total_economic_activity: set by the constructor, never written
total_economic_activity == 0
\* dynamic_synergy_gain and dynamic_penalty_increment are kept in millionths;
\* dynamic_conversion_rate is kept in units of 1 / (100 * NumParticipants).
ParamScale == 100 * 100 * 100

Timestamps == {1}
ForkTips == {"forkA"}
GenesisSignature == "Genesis Block Signature"
CallerSignatures == {"Signature_caller"}

EmptyHash == << >>
GenesisPrevHash == <<"0">>
BogusHash == <<"X">>

\* ------------------------------------------------------------ transactions
TxA == [sender |-> "alice", receiver |-> "bob", amount |-> 5,
        signature |-> "sig_alice", type |-> 0, data |-> ""]
TxB == [sender |-> "bob", receiver |-> "alice", amount |-> 7,
        signature |-> "sig_bob", type |-> 0, data |-> ""]
TxForged == [sender |-> "alice", receiver |-> "bob", amount |-> 5,
             signature |-> "forged", type |-> 0, data |-> ""]
Transactions == {TxA, TxB, TxForged}

\* Crypto::verify_signature(message, signature, public_key): the signature
\* collaborator; the genuine signature of a key holder over its own name.
Crypto_verify_signature(message, signature, public_key) ==
    /\ message = public_key
    /\ signature = IF public_key = "alice" THEN "sig_alice" ELSE "sig_bob"

\* Crypto::hash(data): hex digest, never empty.
Crypto_hash(data) == <<"sha256", data>>

Transaction_verify_transaction(tx) ==
    Crypto_verify_signature(tx.sender, tx.signature, tx.sender)

Transaction_serialize(tx) ==
    <<tx.sender, "|", tx.receiver, "|", tx.amount, "|", tx.signature, "|",
      tx.type, "|", tx.data>>

\* ------------------------------------------------------------------- Block
\* Block::Block(block_number, previous_block_hash, required_signatures);
\* block_hash is default-constructed (empty), timestamp is std::time().
NewBlockValue(n, prev, ts, req) ==
    [block_number |-> n, previous_block_hash |-> prev, timestamp |-> ts,
     transactions |-> << >>, block_hash |-> EmptyHash,
     validator_signatures |-> << >>, required_signatures |-> req]

\* Block::Block()
DefaultBlock == NewBlockValue(0, EmptyHash, 1, 0)

\* The value Block::calculate_block_hash() computes.
HashOfContents(b) ==
    Crypto_hash(<<b.previous_block_hash, b.timestamp,
                  [i \in 1..Len(b.transactions) |->
                      Transaction_serialize(b.transactions[i])]>>)

\* Block::calculate_block_hash() const: stores the digest in the mutable
\* cache block_hash and returns a reference to that cache.
calculate_block_hash(b) == [b EXCEPT !.block_hash = HashOfContents(b)]

\* A variant of the guard that is off by one.
sign_block_accepts_bad(b) ==
    Len(b.validator_signatures) <= b.required_signatures

\* Block::sign_block: the guard.
sign_block_accepts(b) ==
    Len(b.validator_signatures) < b.required_signatures

\* Block::sign_block: the block after the call.
sign_block(b, sig) ==
    IF sign_block_accepts(b)
    THEN [b EXCEPT !.validator_signatures = Append(@, sig)]
    ELSE b

verify_signatures(b) ==
    Len(b.validator_signatures) >= b.required_signatures

\* Ledger::Ledger: the genesis block.
GenesisBlock ==
    calculate_block_hash(
        sign_block(NewBlockValue(0, GenesisPrevHash, 1, GenesisRequiredSignatures),
                   GenesisSignature))

\* ------------------------------------------------------------------- state
VARIABLES
    chain,                  \* Ledger::chain
    current_block_number,   \* Ledger::current_block_number
    current_chain_tip_hash, \* Ledger::current_chain_tip_hash
    forks,                  \* Ledger::forks (map: tip -> sequence of blocks)
    fork_lengths,           \* Ledger::fork_lengths
    fork_difficulties,      \* Ledger::fork_difficulties
    confirmed_blocks,       \* Ledger::confirmed_blocks
    blk,                    \* the caller's Block object handed to the ledger
    made,                   \* how many Block objects the caller has constructed
    readd,                  \* a caller that rolls back and re-appends: its notes
    writers,                \* threads inside Ledger::add_block: where each stands
    last,                   \* the last call and what it returned
    participants,           \* PoSygEngine::participants
    peers,                  \* P2PProtocol: the peer ids it knows
    num_validators,         \* Consensus::num_validators (validators[i] = i)
    current_block,          \* Consensus::current_block
    slashing_penalty,       \* Consensus::slashing_penalty
    reward_for_validators,  \* Consensus::reward_for_validators
    round_pc,               \* where initiate_consensus / a direct call stands
    new_block,              \* initiate_consensus: the local new_block
    round_result,           \* what the round has decided so far
    round_start,            \* ledger and participants when the round started
    rounds,                 \* rounds completed
    ms_caller,              \* handle_multisig: called from the round or directly
    block_copy,             \* handle_multisig: the local block_copy
    block_signed,           \* handle_multisig: the atomic flag
    ms_pc,                  \* handle_multisig: position of each loop iteration
    ms_report,              \* handle_multisig: the verdict it prints
    dynamic_synergy_gain,      \* PoSygEngine::dynamic_synergy_gain
    dynamic_penalty_increment, \* PoSygEngine::dynamic_penalty_increment
    dynamic_conversion_rate,   \* PoSygEngine::dynamic_conversion_rate
    cycles,                 \* run_cycle calls completed
    total_tokens,           \* convert_synergy_to_tokens: the out-parameter
    conv_pending,           \* convert_synergy_to_tokens: iterations still to run
    conv_rate,              \* convert_synergy_to_tokens: conversion_rate
    conv_start,             \* participants when convert_synergy_to_tokens began
    stat,                   \* get_statistics: its threads and local_stats
    total_subnets,          \* SubnetManager::total_subnets
    node_to_subnet_map,     \* SubnetManager::node_to_subnet_map
    subnet_nodes,           \* SubnetManager::subnet_nodes (map: subnet -> nodes)
    proposals,              \* Governance::proposals
    next_proposal_id,       \* Governance::next_proposal_id
    node,                   \* main: where it stands and what it was started with
    vslash                  \* validate_and_slash: iterations to run, records found

ledgerVars == <<chain, current_block_number, current_chain_tip_hash, forks,
                fork_lengths, fork_difficulties, confirmed_blocks>>
callerVars == <<blk, made, readd, writers>>
registryVars == <<participants>>
multisigVars == <<ms_caller, block_copy, block_signed, ms_pc, ms_report>>
roundVars == <<round_pc, new_block, round_result, round_start, rounds>>
consensusVars == <<peers, num_validators, current_block, slashing_penalty,
                   reward_for_validators>>
engineVars == <<dynamic_synergy_gain, dynamic_penalty_increment,
                dynamic_conversion_rate, cycles, total_tokens, conv_pending,
                conv_rate, conv_start, stat>>
subnetVars == <<total_subnets, node_to_subnet_map, subnet_nodes>>
governanceVars == <<proposals, next_proposal_id>>
appVars == <<subnetVars, governanceVars, node, vslash>>
nodeVars == <<registryVars, multisigVars, roundVars, consensusVars, engineVars,
              appVars>>
vars == <<chain, current_block_number, current_chain_tip_hash, forks,
          fork_lengths, fork_difficulties, confirmed_blocks, blk, made, readd,
          writers, last,
          participants, peers, num_validators, current_block, slashing_penalty,
          reward_for_validators, round_pc, new_block, round_result, round_start,
          rounds, ms_caller, block_copy, block_signed, ms_pc, ms_report,
          dynamic_synergy_gain, dynamic_penalty_increment,
          dynamic_conversion_rate, cycles, total_tokens, conv_pending,
          conv_rate, conv_start, stat, total_subnets, node_to_subnet_map,
          subnet_nodes, proposals, next_proposal_id, node, vslash>>

\* main.cpp: size_t initial_difficulty = 3; Ledger ledger(initial_difficulty)
Difficulty == 3

\* an empty std::map
EmptyMap == [t \in {} |-> 0]

\* std::map operator[] assignment
MapPut(m, key, v) == [t \in DOMAIN m \cup {key} |-> IF t = key THEN v ELSE m[t]]

\* std::map::erase of a set of keys
MapErase(m, keys) == [t \in DOMAIN m \ keys |-> m[t]]

Last(seq) == seq[Len(seq)]

Call(op, ok) == [op |-> op, ok |-> ok]

InitLedger ==
    /\ chain = <<GenesisBlock>>
    /\ current_block_number = 0
    /\ current_chain_tip_hash = GenesisBlock.block_hash
    /\ forks = EmptyMap
    /\ fork_lengths = EmptyMap
    /\ fork_difficulties = EmptyMap
    /\ confirmed_blocks = EmptyMap

\* PoSygEngine::PoSygEngine: Participant(i, PARTICIPANT_HONEST)
NewParticipant(i) ==
    [id |-> i, synergy |-> INITIAL_SYNERGY * Scale, reward |-> 0, penalty |-> 0,
     violations_count |-> 0, behavior |-> PARTICIPANT_HONEST,
     economic_activity |-> 1, governance_activity |-> 1, slashed |-> FALSE,
     economic_contribution |-> 0]

\* Stats local_stats = {0, 0, 0.0, 0.0, 0, 0.0}
ZeroStats ==
    [honest_count |-> 0, dishonest_count |-> 0, total_rewards |-> 0,
     total_penalties |-> 0, slashed_participants |-> 0,
     total_economic_contribution |-> 0]

\* no get_statistics call is running
NoStat == [share |-> << >>, pc |-> << >>, thread_stats |-> << >>,
           local_stats |-> ZeroStats, before |-> << >>]

\* no validate_and_slash call is running
NoSlash == [pending |-> {}, start |-> << >>]

\* main has not been started
NoNode == [pc |-> "none", args |-> << >>, report |-> "none"]

\* Governance::Governance, an empty SubnetManager, and no main running
InitApp ==
    /\ proposals = << >>
    /\ next_proposal_id = 1
    /\ total_subnets = 0
    /\ node_to_subnet_map = << >>
    /\ subnet_nodes = << >>
    /\ node = NoNode

\* PoSygEngine::PoSygEngine: the members besides participants
InitEngine ==
    /\ dynamic_synergy_gain = 10 * ParamScale
    /\ dynamic_penalty_increment = PENALTY_INCREMENT * ParamScale
    /\ dynamic_conversion_rate = 10 * NumParticipants
    /\ cycles = 0
    /\ total_tokens = 0
    /\ conv_pending = {}
    /\ conv_rate = 0
    /\ conv_start = << >>
    /\ stat = NoStat

\* Consensus::Consensus over num validators, with the engine and the network.
InitNodeCore(v, known) ==
    /\ participants = [i \in 0..(NumParticipants - 1) |-> NewParticipant(i)]
    /\ peers = known
    /\ num_validators = v
    /\ current_block = NewBlockValue(0, EmptyHash, 1, RoundRequiredSignatures)
    /\ slashing_penalty = 100 * Scale
    /\ reward_for_validators = 50 * Scale
    /\ round_pc = "idle"
    /\ new_block = DefaultBlock
    /\ round_result = "none"
    /\ round_start = [ledger |-> << >>, participants |-> << >>]
    /\ rounds = 0
    /\ ms_caller = "none"
    /\ block_copy = DefaultBlock
    /\ block_signed = FALSE
    /\ ms_pc = << >>
    /\ ms_report = "none"
    /\ vslash = NoSlash
    /\ InitEngine

\* the same, beside a Governance, an empty SubnetManager and no main running
InitNodeWith(v, known) ==
    /\ InitNodeCore(v, known)
    /\ InitApp

\* the notes of a caller that has not rolled anything back
NoReadd == [phase |-> "idle", pending |-> << >>, len |-> 0, tip |-> EmptyHash,
            ok |-> TRUE]

\* Threads that call Ledger::add_block on the same ledger.
Writers == {"w1", "w2"}

NoWriter == [pc |-> "idle", block |-> DefaultBlock, slot |-> 0, result |-> "none"]

InitCaller ==
    /\ blk = DefaultBlock
    /\ made = 0
    /\ readd = NoReadd
    /\ writers = [w \in Writers |-> NoWriter]
    /\ last = Call("init", TRUE)

\* A ledger and a caller's block; no round is ever started.
Init ==
    /\ InitLedger
    /\ InitCaller
    /\ InitNodeWith(1, {})

\* ------------------------------------------------- the caller's Block object
\* Previous hashes a caller can name: what get_latest_block().get_block_hash()
\* returns or an unrelated string; for a fork, the stored hash of its last
\* block (get_forks()).
PrevChoices == {Last(chain).block_hash, BogusHash}

ForkPrevChoices ==
    {Last(chain).block_hash} \cup {Last(forks[t]).block_hash : t \in DOMAIN forks}

NewBlock(n, prev, ts, req) ==
    /\ blk' = NewBlockValue(n, prev, ts, req)
    /\ last' = Call("new_block", TRUE)
    /\ UNCHANGED nodeVars
    /\ UNCHANGED <<ledgerVars, made, readd, writers>>

\* The same constructor, counted: at most MaxBlocks are constructed.
NewCountedBlock(n, prev, ts, req) ==
    /\ made < MaxBlocks
    /\ made' = made + 1
    /\ blk' = NewBlockValue(n, prev, ts, req)
    /\ UNCHANGED <<readd, writers>>
    /\ last' = Call("new_block", TRUE)
    /\ UNCHANGED nodeVars
    /\ UNCHANGED ledgerVars

\* Block::add_transaction
Block_add_transaction(b, tx) ==
    IF Transaction_verify_transaction(tx)
    THEN calculate_block_hash([b EXCEPT !.transactions = Append(@, tx)])
    ELSE b

BlkAddTransaction(tx) ==
    /\ Len(blk.transactions) < MaxTxPerBlock
    /\ blk' = Block_add_transaction(blk, tx)
    /\ last' = Call("add_transaction", Transaction_verify_transaction(tx))
    /\ UNCHANGED nodeVars
    /\ UNCHANGED <<ledgerVars, made, readd, writers>>

BlkCalculateHash ==
    /\ blk' = calculate_block_hash(blk)
    /\ last' = Call("calculate_block_hash", TRUE)
    /\ UNCHANGED nodeVars
    /\ UNCHANGED <<ledgerVars, made, readd, writers>>

BlkSignBlock(sig) ==
    /\ blk' = sign_block(blk, sig)
    /\ last' = Call("sign_block", sign_block_accepts(blk))
    /\ UNCHANGED nodeVars
    /\ UNCHANGED <<ledgerVars, made, readd, writers>>

\* ------------------------------------------------------------------ Ledger
LedgerState(c, n, h) == [ok |-> TRUE, chain |-> c, number |-> n, tip |-> h]
Unchanged(ok) == [ok |-> ok, chain |-> chain, number |-> current_block_number,
                  tip |-> current_chain_tip_hash]

\* A variant of add_block that pushes before it tests the linkage.
add_block_push_first(b) ==
    IF b.previous_block_hash = current_chain_tip_hash
    THEN LedgerState(Append(chain, b), current_block_number + 1, b.block_hash)
    ELSE [Unchanged(FALSE) EXCEPT !.chain = Append(chain, b)]

\* A variant of add_block without the linkage test.
add_block_any_tip(b) ==
    LedgerState(Append(chain, b), current_block_number + 1, b.block_hash)

\* Ledger::add_block: ok = FALSE is the std::invalid_argument it throws.
add_block(b) ==
    IF b.previous_block_hash = current_chain_tip_hash
    THEN LedgerState(Append(chain, b), current_block_number + 1, b.block_hash)
    ELSE Unchanged(FALSE)

ApplyLedger(r) ==
    /\ chain' = r.chain
    /\ current_block_number' = r.number
    /\ current_chain_tip_hash' = r.tip

AddBlock ==
    /\ Len(chain) < MaxChain
    /\ ApplyLedger(add_block(blk))
    /\ last' = Call("add_block", add_block(blk).ok)
    /\ UNCHANGED nodeVars
    /\ UNCHANGED <<forks, fork_lengths, fork_difficulties, confirmed_blocks, callerVars>>

\* A variant of add_fork_block that starts the cumulative difficulty from the
\* value the map still holds for a tip whose fork was erased.
AddForkBlockKeepsDifficulty(tip) ==
    LET known == tip \in DOMAIN forks
        old == IF known THEN forks[tip] ELSE << >>
        oldDiff == IF tip \in DOMAIN fork_difficulties
                   THEN fork_difficulties[tip] ELSE 0
        new == Append(old, blk)
    IN /\ Len(old) < MaxForkLen
       /\ forks' = MapPut(forks, tip, new)
       /\ fork_lengths' = MapPut(fork_lengths, tip, Len(new))
       /\ fork_difficulties' = MapPut(fork_difficulties, tip, oldDiff + Difficulty)
       /\ last' = Call("add_fork_block", TRUE)
       /\ UNCHANGED nodeVars
       /\ UNCHANGED <<chain, current_block_number, current_chain_tip_hash,
                      confirmed_blocks, callerVars>>

\* Ledger::add_fork_block
AddForkBlock(tip) ==
    LET known == tip \in DOMAIN forks
        old == IF known THEN forks[tip] ELSE << >>
        oldDiff == IF known THEN fork_difficulties[tip] ELSE 0
        new == Append(old, blk)
    IN /\ Len(old) < MaxForkLen
       /\ forks' = MapPut(forks, tip, new)
       /\ fork_lengths' = MapPut(fork_lengths, tip, Len(new))
       /\ fork_difficulties' = MapPut(fork_difficulties, tip, oldDiff + Difficulty)
       /\ last' = Call("add_fork_block", TRUE)
       /\ UNCHANGED nodeVars
       /\ UNCHANGED <<chain, current_block_number, current_chain_tip_hash,
                      confirmed_blocks, callerVars>>

\* The comparison of ledger.cpp lines 59 and 82,
\*   current_block.get_block_hash() != current_block.calculate_block_hash():
\* both operands are references to the block's mutable cache, which the call
\* has overwritten by the time operator!= reads them.
hash_check_fails(b) ==
    LET after == calculate_block_hash(b)
    IN after.block_hash # calculate_block_hash(after).block_hash

\* The loop of Ledger::validate_chain / validate_fork from index i (1-based;
\* the code starts at the second block). Returns the verdict and the
\* sequence with the caches the walk has overwritten.
RECURSIVE validate_walk(_, _)
validate_walk(seq, i) ==
    IF i > Len(seq) THEN [ok |-> TRUE, blocks |-> seq]
    ELSE IF seq[i].previous_block_hash # seq[i - 1].block_hash
         THEN [ok |-> FALSE, blocks |-> seq]
         ELSE LET touched == [seq EXCEPT ![i] = calculate_block_hash(seq[i])]
              IN IF hash_check_fails(seq[i])
                 THEN [ok |-> FALSE, blocks |-> touched]
                 ELSE validate_walk(touched, i + 1)

validate_chain == validate_walk(chain, 2)

ValidateChain ==
    /\ chain' = validate_chain.blocks
    /\ last' = Call("validate_chain", validate_chain.ok)
    /\ UNCHANGED nodeVars
    /\ UNCHANGED <<current_block_number, current_chain_tip_hash, forks,
                   fork_lengths, fork_difficulties, confirmed_blocks, callerVars>>

validate_fork(tip) ==
    IF tip \notin DOMAIN forks
    THEN [ok |-> FALSE, blocks |-> << >>]
    ELSE validate_walk(forks[tip], 2)

ValidateFork(tip) ==
    /\ forks' = IF tip \in DOMAIN forks
                THEN MapPut(forks, tip, validate_fork(tip).blocks)
                ELSE forks
    /\ last' = [op |-> "validate_fork", ok |-> validate_fork(tip).ok, tip |-> tip]
    /\ UNCHANGED nodeVars
    /\ UNCHANGED <<chain, current_block_number, current_chain_tip_hash,
                   fork_lengths, fork_difficulties, confirmed_blocks, callerVars>>

\* A variant of rollback_chain that forgets to reset the tip hash.
rollback_chain_stale_tip(k) ==
    IF k >= Len(chain)
    THEN Unchanged(FALSE)
    ELSE LET kept == SubSeq(chain, 1, Len(chain) - k)
         IN LedgerState(kept, current_block_number - k, current_chain_tip_hash)

\* Ledger::rollback_chain
rollback_chain(k) ==
    IF k >= Len(chain)
    THEN Unchanged(FALSE)
    ELSE LET kept == SubSeq(chain, 1, Len(chain) - k)
         IN LedgerState(kept, current_block_number - k, Last(kept).block_hash)

RollbackChain(k) ==
    /\ ApplyLedger(rollback_chain(k))
    /\ last' = [op |-> "rollback_chain", ok |-> rollback_chain(k).ok, k |-> k]
    /\ UNCHANGED nodeVars
    /\ UNCHANGED <<forks, fork_lengths, fork_difficulties, confirmed_blocks, callerVars>>

\* Ledger::select_fork
select_fork(tip) ==
    IF tip \in DOMAIN forks
    THEN LET joined == chain \o forks[tip]
         IN LedgerState(joined, Len(joined), Last(joined).block_hash)
    ELSE Unchanged(FALSE)

SelectFork(tip) ==
    /\ tip \in DOMAIN forks => Len(chain) + Len(forks[tip]) <= MaxChain
    /\ ApplyLedger(select_fork(tip))
    /\ last' = [op |-> "select_fork", ok |-> select_fork(tip).ok, tip |-> tip]
    /\ UNCHANGED nodeVars
    /\ UNCHANGED <<forks, fork_lengths, fork_difficulties, confirmed_blocks, callerVars>>

\* fork_lengths[tip] < current_block_number - 10 in size_t arithmetic: below
\* height 10 the difference wraps to a value above every length.
behind_prune_window(len, height) ==
    IF height >= PruneWindow THEN len < height - PruneWindow ELSE TRUE

\* Ledger::prune_forks
PruneForks ==
    /\ forks' = MapErase(forks, {t \in DOMAIN forks :
                     behind_prune_window(fork_lengths[t], current_block_number)})
    /\ last' = Call("prune_forks", TRUE)
    /\ UNCHANGED nodeVars
    /\ UNCHANGED <<chain, current_block_number, current_chain_tip_hash,
                   fork_lengths, fork_difficulties, confirmed_blocks, callerVars>>

\* Ledger::confirm_block
confirm_block(b) ==
    b.block_number <= current_block_number /\ verify_signatures(b)

ConfirmBlock ==
    /\ last' = Call("confirm_block", confirm_block(blk))
    /\ UNCHANGED nodeVars
    /\ UNCHANGED <<ledgerVars, callerVars>>

\* Ledger::set_block_confirmation
SetBlockConfirmation(h, c) ==
    /\ confirmed_blocks' = MapPut(confirmed_blocks, h, c)
    /\ last' = Call("set_block_confirmation", TRUE)
    /\ UNCHANGED nodeVars
    /\ UNCHANGED <<chain, current_block_number, current_chain_tip_hash, forks,
                   fork_lengths, fork_difficulties, callerVars>>

\* ------------------------------------------------- the ledger specification
Next ==
    \/ \E prev \in PrevChoices, ts \in Timestamps :
          NewBlock(Len(chain), prev, ts, RoundRequiredSignatures)
    \/ \E tx \in Transactions : BlkAddTransaction(tx)
    \/ BlkCalculateHash
    \/ AddBlock
    \/ ValidateChain
    \/ \E k \in 0..MaxChain : RollbackChain(k)

Spec == Init /\ [][Next]_vars

\* ------------------------------------------- add_block from two threads
\* class Ledger has no lock: a thread inside add_block runs its statements
\* one after another while another thread runs the same statements on the same
\* members.  The steps below are the statements of add_block; push_back is a
\* read of the vector's size followed by the store of the element and of the
\* new size, so two overlapping push_backs can store into the same slot.
\* The unsynchronised accesses are a data race; these interleavings are
\* outcomes it can produce.

\* Hashed blocks the racing callers construct on the ledger they see.
RaceBlocks ==
    UNION {{calculate_block_hash(
                NewBlockValue(Len(chain), prev, ts, RoundRequiredSignatures)),
            Block_add_transaction(
                NewBlockValue(Len(chain), prev, ts, RoundRequiredSignatures), TxA)}
           : prev \in PrevChoices, ts \in Timestamps}

WriterFrame == <<forks, fork_lengths, fork_difficulties, confirmed_blocks, blk,
                 made, readd, nodeVars>>

\* Both threads call add_block, each with its own block.
RaceStart(b1, b2) ==
    /\ \A w \in Writers : writers[w].pc = "idle"
    /\ Len(chain) < MaxChain
    /\ writers' = [w \in Writers |->
                     [pc |-> "check", block |-> IF w = "w1" THEN b1 ELSE b2,
                      slot |-> 0, result |-> "none"]]
    /\ last' = [op |-> "race", ok |-> TRUE, len |-> Len(chain),
                tip |-> current_chain_tip_hash]
    /\ UNCHANGED <<ledgerVars, WriterFrame>>

\* if (block.get_previous_block_hash() == current_chain_tip_hash) ... else throw
WriterCheck(w) ==
    /\ writers[w].pc = "check"
    /\ writers' = [writers EXCEPT ![w] =
                     IF writers[w].block.previous_block_hash = current_chain_tip_hash
                     THEN [@ EXCEPT !.pc = "push"]
                     ELSE [@ EXCEPT !.pc = "done", !.result = "rejected"]]
    /\ UNCHANGED <<ledgerVars, last, WriterFrame>>

\* chain.push_back(block): read the size
WriterPushBegin(w) ==
    /\ writers[w].pc = "push"
    /\ writers' = [writers EXCEPT ![w] = [@ EXCEPT !.pc = "store",
                                                   !.slot = Len(chain) + 1]]
    /\ UNCHANGED <<ledgerVars, last, WriterFrame>>

\* chain.push_back(block): store the element and the new size
WriterPushEnd(w) ==
    /\ writers[w].pc = "store"
    /\ chain' = Append(SubSeq(chain, 1, writers[w].slot - 1), writers[w].block)
    /\ writers' = [writers EXCEPT ![w] = [@ EXCEPT !.pc = "number"]]
    /\ UNCHANGED <<current_block_number, current_chain_tip_hash, last, WriterFrame>>

\* current_block_number++
WriterNumber(w) ==
    /\ writers[w].pc = "number"
    /\ current_block_number' = current_block_number + 1
    /\ writers' = [writers EXCEPT ![w] = [@ EXCEPT !.pc = "tip"]]
    /\ UNCHANGED <<chain, current_chain_tip_hash, last, WriterFrame>>

\* current_chain_tip_hash = block.get_block_hash(); return
WriterTip(w) ==
    /\ writers[w].pc = "tip"
    /\ current_chain_tip_hash' = writers[w].block.block_hash
    /\ writers' = [writers EXCEPT ![w] = [@ EXCEPT !.pc = "done",
                                                   !.result = "appended"]]
    /\ UNCHANGED <<chain, current_block_number, last, WriterFrame>>

\* Both calls have returned; the threads are free to call again.
RaceEnd ==
    /\ \A w \in Writers : writers[w].pc = "done"
    /\ writers' = [w \in Writers |-> NoWriter]
    /\ last' = Call("race_end", TRUE)
    /\ UNCHANGED <<ledgerVars, WriterFrame>>

NextWriters ==
    \/ \E b1 \in RaceBlocks, b2 \in RaceBlocks : RaceStart(b1, b2)
    \/ \E w \in Writers : WriterCheck(w)
    \/ \E w \in Writers : WriterPushBegin(w)
    \/ \E w \in Writers : WriterPushEnd(w)
    \/ \E w \in Writers : WriterNumber(w)
    \/ \E w \in Writers : WriterTip(w)
    \/ RaceEnd

SpecWriters == Init /\ [][NextWriters]_vars

\* ------------------------------------ rollback, then re-append what was cut
\* A caller copies the last k blocks from get_chain(), notes the length and
\* the tip hash, and calls rollback_chain(k).
ReaddRollback(k) ==
    /\ readd.phase = "idle"
    /\ k < Len(chain)
    /\ readd' = [phase |-> "readd",
                 pending |-> SubSeq(chain, Len(chain) - k + 1, Len(chain)),
                 len |-> Len(chain), tip |-> current_chain_tip_hash, ok |-> TRUE]
    /\ ApplyLedger(rollback_chain(k))
    /\ last' = [op |-> "rollback_chain", ok |-> rollback_chain(k).ok, k |-> k]
    /\ UNCHANGED nodeVars
    /\ UNCHANGED <<forks, fork_lengths, fork_difficulties, confirmed_blocks, blk, made,
                   writers>>

\* The caller hands the next copied block to add_block.
ReaddNext ==
    /\ readd.phase = "readd"
    /\ readd.pending # << >>
    /\ blk' = Head(readd.pending)
    /\ ApplyLedger(add_block(Head(readd.pending)))
    /\ readd' = [readd EXCEPT !.pending = Tail(@),
                              !.ok = @ /\ add_block(Head(readd.pending)).ok]
    /\ last' = Call("add_block", add_block(Head(readd.pending)).ok)
    /\ UNCHANGED nodeVars
    /\ UNCHANGED <<forks, fork_lengths, fork_difficulties, confirmed_blocks, made,
                   writers>>

NextReadd ==
    \/ readd.phase = "idle" /\ Next
    \/ \E k \in 0..MaxChain : ReaddRollback(k)
    \/ ReaddNext

SpecReadd == Init /\ [][NextReadd]_vars

\* ----------------------------------------- the ledger with its fork operations
\* the hashes whose confirmation the caller records
ConfirmKeys == {GenesisBlock.block_hash}

NextForks ==
    \/ \E prev \in ForkPrevChoices, ts \in Timestamps :
          NewCountedBlock(Len(chain), prev, ts, RoundRequiredSignatures)
    \/ BlkCalculateHash
    \/ AddBlock
    \/ \E tip \in ForkTips : AddForkBlock(tip)
    \/ ValidateChain
    \/ \E tip \in ForkTips \cup {"unknown"} : ValidateFork(tip)
    \/ \E k \in 0..MaxChain : RollbackChain(k)
    \/ \E tip \in ForkTips \cup {"unknown"} : SelectFork(tip)
    \/ PruneForks
    \/ ConfirmBlock
    \/ \E h \in ConfirmKeys, c \in BOOLEAN : SetBlockConfirmation(h, c)

SpecForks == Init /\ [][NextForks]_vars

\* ------------------------------------------------ a Block object on its own
NextBlock ==
    \/ \E prev \in PrevChoices, ts \in Timestamps, req \in 0..MaxReq :
          NewBlock(Len(chain), prev, ts, req)
    \/ \E tx \in Transactions : BlkAddTransaction(tx)
    \/ BlkCalculateHash
    \/ \E sig \in CallerSignatures : BlkSignBlock(sig)

SpecBlock == Init /\ [][NextBlock]_vars

\* ------------------------------------------- the ledger under tampering (§8)
\* The content of transaction j of block i of the main chain is replaced by a
\* different transaction; every stored hash is left as it was. ok records
\* whether validate_chain had just accepted the chain.
Tamper(i, j, tx) ==
    /\ i \in 1..Len(chain)
    /\ j \in 1..Len(chain[i].transactions)
    /\ tx # chain[i].transactions[j]
    /\ last.op \in {"validate_chain", "add_block"}
    /\ chain' = [chain EXCEPT ![i].transactions[j] = tx]
    /\ last' = [op |-> "tamper", ok |-> (last.op = "validate_chain" /\ last.ok)]
    /\ UNCHANGED nodeVars
    /\ UNCHANGED <<current_block_number, current_chain_tip_hash, forks,
                   fork_lengths, fork_difficulties, confirmed_blocks, callerVars>>

NextTamper ==
    \/ Next
    \/ \E i \in 1..MaxChain, j \in 1..MaxTxPerBlock, tx \in {TxA, TxB} : Tamper(i, j, tx)

SpecTamper == Init /\ [][NextTamper]_vars

\* ------------------------------------------------------------- Participant
\* A variant of the test that looks at the economic activity only.
detect_economic_only(p) == p.economic_activity > 4

\* Participant::detect_suspicious_behavior
detect_suspicious_behavior(p) ==
    p.economic_activity > 4 /\ p.governance_activity > 2

\* A variant of apply_slash that leaves the synergy alone.
apply_slash_keeps_synergy(p) ==
    IF ~p.slashed
    THEN [p EXCEPT !.slashed = TRUE, !.penalty = @ + SLASH_PENALTY * Scale]
    ELSE p

\* apply_slash without the check of slashed.
apply_slash_unguarded(p) ==
    [p EXCEPT !.slashed = TRUE, !.penalty = @ + SLASH_PENALTY * Scale,
              !.synergy = 0]

\* Participant::apply_slash
apply_slash(p) ==
    IF ~p.slashed
    THEN [p EXCEPT !.slashed = TRUE, !.penalty = @ + SLASH_PENALTY * Scale,
                   !.synergy = 0]
    ELSE p

\* static_cast<int>(x / y) for whole x: truncation toward zero
TruncDiv(x, y) == IF x >= 0 THEN x \div y ELSE -((-x) \div y)

Min(a, b) == IF a < b THEN a ELSE b

\* Participant::update_economic_activity(contribution), contribution whole
update_economic_activity(p, contribution) ==
    [p EXCEPT !.economic_contribution = @ + contribution * Scale,
              !.economic_activity =
                  Min(TruncDiv(contribution, 10), MAX_ECONOMIC_ACTIVITY)]

\* the participant a caller updates, and the values it writes
ActiveIds == {0}
Contributions == {50}
GovernanceLevels == {3}

\* A caller updates a participant through PoSygEngine::get_participant.
UpdateEconomicActivity(i, contribution) ==
    /\ round_pc = "idle"
    /\ participants[i].economic_contribution = 0
    /\ participants' = [participants EXCEPT
                           ![i] = update_economic_activity(@, contribution)]
    /\ last' = Call("update_economic_activity", TRUE)
    /\ UNCHANGED <<engineVars, appVars>>
    /\ UNCHANGED <<ledgerVars, callerVars, multisigVars, roundVars, consensusVars>>

\* A caller writes the public field governance_activity.
SetGovernanceActivity(i, g) ==
    /\ round_pc = "idle"
    /\ participants' = [participants EXCEPT ![i].governance_activity = g]
    /\ last' = Call("set_governance_activity", TRUE)
    /\ UNCHANGED <<engineVars, appVars>>
    /\ UNCHANGED <<ledgerVars, callerVars, multisigVars, roundVars, consensusVars>>

\* --------------------------------------------------------------- Consensus
\* P2PProtocol::send_message(peer, text): fails if the peer is unknown.
send_message_ok(peer) == peer \in peers

\* Consensus::create_new_block, constructed at time ts
create_new_block(ts) ==
    NewBlockValue(Len(chain), Last(chain).block_hash, ts, RoundRequiredSignatures)

\* A variant of validate_block that looks at the stored hash only.
validate_block_hash_only(b) == b.block_hash # EmptyHash

\* Consensus::validate_block
validate_block(b) ==
    /\ b.previous_block_hash # EmptyHash
    /\ b.block_hash # EmptyHash

\* Consensus::dynamic_network_management
dynamic_network_management ==
    /\ slashing_penalty' = (slashing_penalty * 105) \div 100
    /\ reward_for_validators' = (reward_for_validators * 102) \div 100

Validators == 0..(num_validators - 1)

\* handle_multisig: block_copy = block, flag cleared, the loop not yet run
StartMultisig(b, caller) ==
    /\ ms_caller' = caller
    /\ block_copy' = b
    /\ block_signed' = FALSE
    /\ ms_pc' = [i \in Validators |-> "load"]
    /\ ms_report' = "none"

\* initiate_consensus: entry, dynamic_network_management()
RoundStart ==
    /\ round_pc = "idle"
    /\ rounds < MaxRounds
    /\ dynamic_network_management
    /\ round_pc' = "draft"
    /\ round_result' = "none"
    /\ round_start' = [ledger |-> ledgerVars, participants |-> participants]
    /\ last' = Call("dynamic_network_management", TRUE)
    /\ UNCHANGED <<engineVars, appVars>>
    /\ UNCHANGED <<ledgerVars, callerVars, registryVars, multisigVars, new_block,
                   rounds, peers, num_validators, current_block>>

\* initiate_consensus: Block new_block = create_new_block()
RoundDraft(ts) ==
    /\ round_pc = "draft"
    /\ new_block' = create_new_block(ts)
    /\ round_pc' = "validate"
    /\ last' = Call("create_new_block", TRUE)
    /\ UNCHANGED <<engineVars, appVars>>
    /\ UNCHANGED <<ledgerVars, callerVars, registryVars, multisigVars, round_result,
                   round_start, rounds, consensusVars>>

\* initiate_consensus: if (validate_block(new_block)) ... else "failed"
RoundValidate ==
    /\ round_pc = "validate"
    /\ IF validate_block(new_block)
       THEN /\ round_pc' = "multisig"
            /\ round_result' = "validated"
            /\ StartMultisig(new_block, "round")
       ELSE /\ round_pc' = "slash"
            /\ round_result' = "rejected"
            /\ UNCHANGED multisigVars
    /\ last' = Call("validate_block", validate_block(new_block))
    /\ UNCHANGED <<engineVars, appVars>>
    /\ UNCHANGED <<ledgerVars, callerVars, registryVars, new_block, round_start,
                   rounds, consensusVars>>

\* handle_multisig called on the caller's block (a derived coordinator)
HandleMultisigCall ==
    /\ round_pc = "idle"
    /\ round_pc' = "multisig"
    /\ StartMultisig(blk, "call")
    /\ last' = Call("handle_multisig", TRUE)
    /\ UNCHANGED <<engineVars, appVars>>
    /\ UNCHANGED <<ledgerVars, callerVars, registryVars, new_block, round_result,
                   round_start, rounds, consensusVars>>

\* handle_multisig, iteration i: if (!block_signed.load())
WorkerLoad(i) ==
    /\ round_pc = "multisig"
    /\ ms_pc[i] = "load"
    /\ ms_pc' = [ms_pc EXCEPT ![i] = IF block_signed THEN "done" ELSE "sign"]
    /\ UNCHANGED <<engineVars, appVars>>
    /\ UNCHANGED <<ledgerVars, callerVars, registryVars, roundVars, consensusVars,
                   ms_caller, block_copy, block_signed, ms_report, last>>

\* The same iteration without the lock: the threshold test and the push_back
\* are two steps.
WorkerSignUnlocked(i) ==
    /\ round_pc = "multisig"
    /\ \/ /\ ms_pc[i] = "sign"
          /\ ms_pc' = [ms_pc EXCEPT ![i] =
                          IF sign_block_accepts(block_copy) THEN "push" ELSE "done"]
          /\ block_signed' = (block_signed \/ ~sign_block_accepts(block_copy))
          /\ UNCHANGED block_copy
       \/ /\ ms_pc[i] = "push"
          /\ block_copy' = [block_copy EXCEPT
                               !.validator_signatures = Append(@, <<"Signature_", i>>)]
          /\ ms_pc' = [ms_pc EXCEPT ![i] = "done"]
          /\ UNCHANGED block_signed
    /\ UNCHANGED <<engineVars, appVars>>
    /\ UNCHANGED <<ledgerVars, callerVars, registryVars, roundVars, consensusVars,
                   ms_caller, ms_report, last>>

\* A variant of the iteration that tries again when sign_block refuses.
WorkerSignRetries(i) ==
    /\ round_pc = "multisig"
    /\ ms_pc[i] = "sign"
    /\ block_copy' = sign_block(block_copy, <<"Signature_", i>>)
    /\ block_signed' = (block_signed \/ ~sign_block_accepts(block_copy))
    /\ ms_pc' = [ms_pc EXCEPT ![i] =
                    IF sign_block_accepts(block_copy) THEN "done" ELSE "sign"]
    /\ UNCHANGED <<engineVars, appVars>>
    /\ UNCHANGED <<ledgerVars, callerVars, registryVars, roundVars, consensusVars,
                   ms_caller, ms_report, last>>

\* handle_multisig, iteration i: the block under std::lock_guard
WorkerSign(i) ==
    /\ round_pc = "multisig"
    /\ ms_pc[i] = "sign"
    /\ block_copy' = sign_block(block_copy, <<"Signature_", i>>)
    /\ block_signed' = (block_signed \/ ~sign_block_accepts(block_copy))
    /\ ms_pc' = [ms_pc EXCEPT ![i] = "done"]
    /\ UNCHANGED <<engineVars, appVars>>
    /\ UNCHANGED <<ledgerVars, callerVars, registryVars, roundVars, consensusVars,
                   ms_caller, ms_report, last>>

\* handle_multisig: after the loop, block_copy.verify_signatures(); the
\* verdict is printed and the locals go out of scope
MultisigEnd ==
    /\ round_pc = "multisig"
    /\ \A i \in Validators : ms_pc[i] = "done"
    /\ ms_report' = IF verify_signatures(block_copy) THEN "verified" ELSE "insufficient"
    /\ round_pc' = IF ms_caller = "round" THEN "finalize" ELSE "idle"
    /\ ms_caller' = "none"
    /\ block_copy' = DefaultBlock
    /\ block_signed' = FALSE
    /\ ms_pc' = << >>
    /\ last' = Call("handle_multisig_end", verify_signatures(block_copy))
    /\ UNCHANGED <<engineVars, appVars>>
    /\ UNCHANGED <<ledgerVars, callerVars, registryVars, consensusVars, new_block,
                   round_result, round_start, rounds>>

\* Consensus::finalize_block(block): on new_block inside initiate_consensus,
\* on the caller's block when called directly (it is public). ok = FALSE is
\* the error send_message raises, which also ends initiate_consensus.
FinalizeBlock ==
    LET inRound == round_pc = "finalize"
        b == IF inRound THEN new_block ELSE blk
        sent == send_message_ok(0)
    IN /\ round_pc \in {"finalize", "idle"}
       /\ current_block' = b
       /\ round_pc' = IF inRound /\ sent THEN "slash" ELSE "idle"
       /\ round_result' = IF inRound
                          THEN (IF sent THEN "finalized" ELSE "send_failed")
                          ELSE round_result
       /\ rounds' = IF inRound /\ ~sent THEN rounds + 1 ELSE rounds
       /\ last' = Call("finalize_block", sent)
       /\ UNCHANGED <<engineVars, appVars>>
       /\ UNCHANGED <<ledgerVars, callerVars, registryVars, multisigVars, new_block,
                      round_start, peers, num_validators, slashing_penalty,
                      reward_for_validators>>

\* validate_and_slash over the validators in done
slash_suspicious(done) ==
    [i \in DOMAIN participants |->
        IF i \in done /\ detect_suspicious_behavior(participants[i])
        THEN apply_slash(participants[i])
        ELSE participants[i]]

\* initiate_consensus: validate_and_slash(). get_participant(i) with
\* i >= num_participants throws inside the parallel region, which ends the
\* process after any subset of the other iterations has run.
RoundSlash ==
    /\ round_pc = "slash"
    /\ IF num_validators > NumParticipants
       THEN /\ round_pc' = "terminated"
            /\ \E done \in SUBSET DOMAIN participants :
                   participants' = slash_suspicious(done)
       ELSE /\ round_pc' = "reward"
            /\ participants' = slash_suspicious(Validators)
    /\ last' = Call("validate_and_slash", num_validators <= NumParticipants)
    /\ UNCHANGED <<engineVars, appVars>>
    /\ UNCHANGED <<ledgerVars, callerVars, multisigVars, new_block, round_result,
                   round_start, rounds, consensusVars>>

\* Consensus::distribute_rewards
distribute_rewards ==
    [i \in DOMAIN participants |->
        IF i \in Validators
        THEN [participants[i] EXCEPT !.reward = @ + reward_for_validators]
        ELSE participants[i]]

\* initiate_consensus: distribute_rewards(), then it returns
RoundReward ==
    /\ round_pc = "reward"
    /\ participants' = distribute_rewards
    /\ round_pc' = "idle"
    /\ rounds' = rounds + 1
    /\ new_block' = DefaultBlock
    /\ last' = Call("initiate_consensus", round_result # "rejected")
    /\ UNCHANGED <<engineVars, appVars>>
    /\ UNCHANGED <<ledgerVars, callerVars, multisigVars, round_result,
                   round_start, consensusVars>>

\* Consensus::create_new_block called directly
CreateNewBlockCall(ts) ==
    /\ round_pc = "idle"
    /\ blk' = create_new_block(ts)
    /\ last' = Call("create_new_block", TRUE)
    /\ UNCHANGED <<engineVars, appVars>>
    /\ UNCHANGED <<ledgerVars, made, readd, writers, nodeVars>>

\* Consensus::validate_block called directly
ValidateBlockCall ==
    /\ round_pc = "idle"
    /\ last' = Call("validate_block", validate_block(blk))
    /\ UNCHANGED <<engineVars, appVars>>
    /\ UNCHANGED <<ledgerVars, callerVars, nodeVars>>

\* -------------------------------------------------- the node: rounds and calls
InitNode ==
    /\ InitLedger
    /\ InitCaller
    /\ \E v \in 1..MaxValidators, known \in {{}, {0}} : InitNodeWith(v, known)

NextNode ==
    \/ RoundStart
    \/ \E ts \in Timestamps : RoundDraft(ts)
    \/ RoundValidate
    \/ HandleMultisigCall
    \/ \E i \in Validators : WorkerLoad(i)
    \/ \E i \in Validators : WorkerSign(i)
    \/ MultisigEnd
    \/ FinalizeBlock
    \/ RoundSlash
    \/ RoundReward
    \/ \E ts \in Timestamps : CreateNewBlockCall(ts)
    \/ ValidateBlockCall
    \/ round_pc = "idle" /\ BlkCalculateHash
    \/ round_pc = "idle" /\ \E sig \in CallerSignatures : BlkSignBlock(sig)
    \/ \E i \in ActiveIds, c \in Contributions : UpdateEconomicActivity(i, c)
    \/ \E i \in ActiveIds, g \in GovernanceLevels : SetGovernanceActivity(i, g)

SpecNode == InitNode /\ [][NextNode]_vars

\* The statements of a running initiate_consensus or handle_multisig call.  The
\* thread of the call and the omp workers are scheduled until they finish, so
\* a call that can take a step eventually takes one.
RoundStep ==
    \/ \E ts \in Timestamps : RoundDraft(ts)
    \/ RoundValidate
    \/ \E i \in Validators : WorkerLoad(i)
    \/ \E i \in Validators : WorkerSign(i)
    \/ MultisigEnd
    \/ round_pc = "finalize" /\ FinalizeBlock
    \/ RoundSlash
    \/ RoundReward

SpecNodeFair == InitNode /\ [][NextNode]_vars /\ WF_vars(RoundStep)

\* The node drafting blocks on a ledger that is also appended to, validated
\* and rolled back.
NextDraft ==
    \/ Next
    \/ \E ts \in Timestamps : CreateNewBlockCall(ts)

SpecDraft == Init /\ [][NextDraft]_vars

\* ------------------------------------- handle_multisig on an unsigned block
InitMultisig ==
    /\ InitLedger
    /\ InitCaller
    /\ \E v \in 1..MaxValidators : InitNodeWith(v, {})

NextMultisig ==
    \/ \E prev \in PrevChoices, ts \in Timestamps, req \in 0..MaxReq :
          round_pc = "idle" /\ NewBlock(Len(chain), prev, ts, req)
    \/ HandleMultisigCall
    \/ \E i \in Validators : WorkerLoad(i)
    \/ \E i \in Validators : WorkerSign(i)
    \/ MultisigEnd

SpecMultisig == InitMultisig /\ [][NextMultisig]_vars

\* ------------------------------------------------------------- PoSygEngine
\* A variant of the update whose suspicious branch adds no extra penalty.
synergy_step_no_extra(p) ==
    LET step == 10 * p.economic_activity * Scale
    IN IF p.behavior = PARTICIPANT_HONEST /\ ~p.slashed
       THEN [p EXCEPT !.synergy = @ + step,
                      !.reward = @ + REWARD_INCREMENT * p.economic_activity * Scale]
       ELSE IF ~p.slashed
       THEN LET q == [p EXCEPT
                        !.synergy = @ - step,
                        !.penalty = @ + PENALTY_INCREMENT * p.economic_activity * Scale]
            IN IF detect_suspicious_behavior(q) THEN apply_slash(q) ELSE q
       ELSE p

\* Participant::update_synergy, lines 7-17: the gain or the loss
synergy_step(p) ==
    LET step == 10 * p.economic_activity * Scale
    IN IF p.behavior = PARTICIPANT_HONEST /\ ~p.slashed
       THEN [p EXCEPT !.synergy = @ + step,
                      !.reward = @ + REWARD_INCREMENT * p.economic_activity * Scale]
       ELSE IF ~p.slashed
       THEN LET q == [p EXCEPT
                        !.synergy = @ - step,
                        !.penalty = @ + PENALTY_INCREMENT * p.economic_activity * Scale]
            IN IF detect_suspicious_behavior(q)
               THEN apply_slash([q EXCEPT !.penalty = @ + 10 * Scale])
               ELSE q
       ELSE p

\* A variant that leaves a negative synergy as it is.
clamp_none(p) == p

\* Participant::update_synergy, lines 18-20: if (synergy < 0.0) synergy = 0.0
clamp_synergy(p) == IF p.synergy < 0 THEN [p EXCEPT !.synergy = 0] ELSE p

\* Participant::update_synergy
update_synergy(p) == clamp_synergy(synergy_step(p))

\* restore_after_slash without the check of slashed.
restore_after_slash_unguarded(p) ==
    [p EXCEPT !.slashed = FALSE, !.synergy = INITIAL_RESTORE_SYNERGY * Scale]

\* Participant::restore_after_slash
restore_after_slash(p) ==
    IF p.slashed
    THEN [p EXCEPT !.slashed = FALSE, !.synergy = INITIAL_RESTORE_SYNERGY * Scale]
    ELSE p

\* PoSygEngine::process_slashing over the records ps
process_slashing(ps) ==
    [i \in DOMAIN ps |->
        IF ps[i].violations_count > 3 /\ ~ps[i].slashed
        THEN apply_slash(ps[i]) ELSE ps[i]]

RECURSIVE SumSynergy(_, _)
\* the reduction of PoSygEngine::distribute_rewards: synergy of the
\* non-slashed records of ps with an id in ids
SumSynergy(ps, ids) ==
    IF ids = {} THEN 0
    ELSE LET i == CHOOSE x \in ids : TRUE
         IN (IF ps[i].slashed THEN 0 ELSE ps[i].synergy) + SumSynergy(ps, ids \ {i})

\* A variant of the distribution that leaves out the factor
\* total_economic_activity.
distribute_rewards_unscaled(ps) ==
    LET total_synergy == SumSynergy(ps, DOMAIN ps)
    IN IF total_synergy > 0
       THEN [i \in DOMAIN ps |->
               IF ~ps[i].slashed
               THEN [ps[i] EXCEPT !.reward =
                        @ + ((ps[i].synergy * 100) \div total_synergy) * 100]
               ELSE ps[i]]
       ELSE ps

\* PoSygEngine::distribute_rewards over the records ps
PoSygEngine_distribute_rewards(ps) ==
    LET total_synergy == SumSynergy(ps, DOMAIN ps)
    IN IF total_synergy > 0
       THEN [i \in DOMAIN ps |->
               IF ~ps[i].slashed
               THEN [ps[i] EXCEPT !.reward =
                        @ + (ps[i].synergy * total_economic_activity * Scale)
                              \div total_synergy]
               ELSE ps[i]]
       ELSE ps

\* PoSygEngine::adjust_network_parameters
adjust_network_parameters ==
    LET dishonest_count ==
            Cardinality({i \in DOMAIN participants :
                            participants[i].behavior # PARTICIPANT_HONEST})
    IN /\ IF 2 * dishonest_count > NumParticipants
          THEN /\ dynamic_penalty_increment' = (dynamic_penalty_increment * 110) \div 100
               /\ dynamic_synergy_gain' = (dynamic_synergy_gain * 90) \div 100
          ELSE /\ dynamic_penalty_increment' = (dynamic_penalty_increment * 95) \div 100
               /\ dynamic_synergy_gain' = (dynamic_synergy_gain * 105) \div 100
       /\ dynamic_conversion_rate' = 10 * NumParticipants + 5 * dishonest_count

\* what dis(gen) < 3 decides for each participant in one run_cycle
BehaviorDraws == [DOMAIN participants -> {PARTICIPANT_HONEST, PARTICIPANT_DISHONEST}]

\* PoSygEngine::run_cycle with the drawn behaviours
run_cycle(draw) ==
    PoSygEngine_distribute_rewards(
        process_slashing(
            [i \in DOMAIN participants |->
                update_synergy([participants[i] EXCEPT !.behavior = draw[i]])]))

RunCycle ==
    /\ round_pc = "idle"
    /\ cycles < MaxCycles
    /\ adjust_network_parameters
    /\ \E draw \in BehaviorDraws : participants' = run_cycle(draw)
    /\ cycles' = cycles + 1
    /\ last' = Call("run_cycle", TRUE)
    /\ UNCHANGED <<ledgerVars, callerVars, multisigVars, roundVars, consensusVars,
                   total_tokens, conv_pending, conv_rate, conv_start, stat,
                   appVars>>

\* Callers slash the participants in ids only while their penalties are
\* below MaxSlashes slashes.
WithinSlashBudget(ids) ==
    \A i \in ids \cap DOMAIN participants :
        \/ participants[i].slashed
        \/ participants[i].penalty < MaxSlashes * SLASH_PENALTY * Scale

\* get_participant(i).apply_slash()
ApplySlashCall(i) ==
    /\ round_pc = "idle"
    /\ WithinSlashBudget({i})
    /\ participants' = [participants EXCEPT ![i] = apply_slash(@)]
    /\ last' = [op |-> "apply_slash", ok |-> TRUE, id |-> i,
                was_slashed |-> participants[i].slashed]
    /\ UNCHANGED <<ledgerVars, callerVars, multisigVars, roundVars, consensusVars,
                   engineVars, appVars>>

\* get_participant(i).restore_after_slash()
RestoreAfterSlashCall(i) ==
    /\ round_pc = "idle"
    /\ participants' = [participants EXCEPT ![i] = restore_after_slash(@)]
    /\ last' = [op |-> "restore_after_slash", ok |-> TRUE, id |-> i,
                was_slashed |-> participants[i].slashed]
    /\ UNCHANGED <<ledgerVars, callerVars, multisigVars, roundVars, consensusVars,
                   engineVars, appVars>>

\* the conversion rates a caller passes, in hundredths
ConversionRates == {10}

\* PoSygEngine::convert_synergy_to_tokens: total_tokens = 0.0, the loop opens.
\* conv_start keeps the records the call found and whether the call directly
\* follows another conversion.
ConvertStart(rate) ==
    /\ round_pc = "idle"
    /\ round_pc' = "convert"
    /\ total_tokens' = 0
    /\ conv_pending' = DOMAIN participants
    /\ conv_rate' = rate
    /\ conv_start' = [participants |-> participants,
                      follows_conversion |-> last.op = "convert_synergy_to_tokens"]
    /\ last' = Call("convert_start", TRUE)
    /\ UNCHANGED <<ledgerVars, callerVars, registryVars, multisigVars, new_block,
                   round_result, round_start, rounds, consensusVars,
                   dynamic_synergy_gain, dynamic_penalty_increment,
                   dynamic_conversion_rate, cycles, stat, appVars>>

\* the loop body without the assignment synergy = 0.0
convert_one_keeps_synergy(p, rate) ==
    IF ~p.slashed
    THEN [record |-> p, tokens |-> p.synergy * rate]
    ELSE [record |-> p, tokens |-> 0]

\* one iteration of the loop body on participant i
convert_one(p, rate) ==
    IF ~p.slashed
    THEN [record |-> [p EXCEPT !.synergy = 0], tokens |-> p.synergy * rate]
    ELSE [record |-> p, tokens |-> 0]

\* convert_synergy_to_tokens, iteration i (iterations run in any order; the
\* reduction adds each iteration's tokens into the total)
ConvertWorker(i) ==
    /\ round_pc = "convert"
    /\ i \in conv_pending
    /\ participants' = [participants EXCEPT ![i] = convert_one(@, conv_rate).record]
    /\ total_tokens' = total_tokens + convert_one(participants[i], conv_rate).tokens
    /\ conv_pending' = conv_pending \ {i}
    /\ UNCHANGED <<ledgerVars, callerVars, multisigVars, roundVars, consensusVars,
                   dynamic_synergy_gain, dynamic_penalty_increment,
                   dynamic_conversion_rate, cycles, conv_rate, conv_start, stat,
                   appVars, last>>

\* convert_synergy_to_tokens returns: the caller reads total_tokens, and the
\* call's locals go out of scope.
ConvertEnd ==
    /\ round_pc = "convert"
    /\ conv_pending = {}
    /\ round_pc' = "idle"
    /\ total_tokens' = 0
    /\ conv_rate' = 0
    /\ conv_start' = << >>
    /\ last' = Call("convert_synergy_to_tokens", TRUE)
    /\ UNCHANGED <<ledgerVars, callerVars, registryVars, multisigVars, new_block,
                   round_result, round_start, rounds, consensusVars,
                   dynamic_synergy_gain, dynamic_penalty_increment,
                   dynamic_conversion_rate, cycles, conv_pending, stat, appVars>>

\* Consensus::validate_and_slash called directly (it is public)
ValidateAndSlashCall ==
    /\ round_pc = "idle"
    /\ num_validators <= NumParticipants
    /\ WithinSlashBudget(Validators)
    /\ participants' = slash_suspicious(Validators)
    /\ last' = Call("validate_and_slash", TRUE)
    /\ UNCHANGED <<ledgerVars, callerVars, multisigVars, roundVars, consensusVars,
                   engineVars, appVars>>

\* ------------------------------- the registry under every kind of contribution
\* update_economic_activity takes a double: contributions below zero, zero,
\* ordinary ones, and ones above 10 * MAX_ECONOMIC_ACTIVITY
AnyContributions == {-50, 0, 50, 150}

\* Consensus::distribute_rewards called directly (it is public)
DistributeRewardsCall ==
    /\ round_pc = "idle"
    /\ num_validators <= NumParticipants
    /\ \A i \in Validators : participants[i].reward < MaxRounds * 50 * Scale
    /\ participants' = distribute_rewards
    /\ last' = Call("distribute_rewards", TRUE)
    /\ UNCHANGED <<ledgerVars, callerVars, multisigVars, roundVars, consensusVars,
                   engineVars, appVars>>

NextActivity ==
    \/ RunCycle
    \/ \E i \in ActiveIds : ApplySlashCall(i)
    \/ \E i \in ActiveIds : RestoreAfterSlashCall(i)
    \/ \E rate \in ConversionRates : ConvertStart(rate)
    \/ \E i \in 0..(NumParticipants - 1) : ConvertWorker(i)
    \/ ConvertEnd
    \/ \E i \in ActiveIds, c \in AnyContributions : UpdateEconomicActivity(i, c)
    \/ \E i \in ActiveIds, g \in GovernanceLevels : SetGovernanceActivity(i, g)
    \/ ValidateAndSlashCall
    \/ DistributeRewardsCall

\* ------------------------------------ Consensus::validate_and_slash, by worker
\* validate_and_slash is entered: the omp loop has its iterations to run.
SlashStart ==
    /\ round_pc = "idle"
    /\ WithinSlashBudget(Validators)
    /\ round_pc' = "slashing"
    /\ vslash' = [pending |-> Validators, start |-> participants]
    /\ last' = Call("validate_and_slash_start", TRUE)
    /\ UNCHANGED <<ledgerVars, callerVars, registryVars, multisigVars, new_block,
                   round_result, round_start, rounds, consensusVars, engineVars,
                   subnetVars, governanceVars, node>>

\* iteration i of the loop: get_participant(validators[i]), the test, and
\* slash_validator.  get_participant throws for an id past the registry; the
\* exception leaves the parallel region and the process ends.
SlashWorker(i) ==
    /\ round_pc = "slashing"
    /\ i \in vslash.pending
    /\ IF i \in DOMAIN participants
       THEN /\ participants' =
                  [participants EXCEPT
                      ![i] = IF detect_suspicious_behavior(@)
                             THEN apply_slash(@) ELSE @]
            /\ vslash' = [vslash EXCEPT !.pending = @ \ {i}]
            /\ UNCHANGED <<round_pc, last>>
       ELSE /\ round_pc' = "terminated"
            /\ last' = Call("validate_and_slash", FALSE)
            /\ UNCHANGED <<participants, vslash>>
    /\ UNCHANGED <<ledgerVars, callerVars, multisigVars, new_block, round_result,
                   round_start, rounds, consensusVars, engineVars, subnetVars,
                   governanceVars, node>>

\* the loop has run every iteration: validate_and_slash returns.  last keeps
\* the records the call found.
SlashEnd ==
    /\ round_pc = "slashing"
    /\ vslash.pending = {}
    /\ round_pc' = "idle"
    /\ vslash' = NoSlash
    /\ last' = [op |-> "validate_and_slash", ok |-> TRUE, before |-> vslash.start]
    /\ UNCHANGED <<ledgerVars, callerVars, registryVars, multisigVars, new_block,
                   round_result, round_start, rounds, consensusVars, engineVars,
                   subnetVars, governanceVars, node>>

InitSlash ==
    /\ InitLedger
    /\ InitCaller
    /\ \E v \in 1..MaxValidators : InitNodeWith(v, {})

NextSlash ==
    \/ SlashStart
    \/ \E i \in 0..(MaxValidators - 1) : SlashWorker(i)
    \/ SlashEnd
    \/ \E i \in 0..(NumParticipants - 1), c \in Contributions :
          UpdateEconomicActivity(i, c)
    \/ \E i \in 0..(NumParticipants - 1), g \in GovernanceLevels :
          SetGovernanceActivity(i, g)
    \/ \E i \in 0..(NumParticipants - 1) : RestoreAfterSlashCall(i)

SpecSlash == InitSlash /\ [][NextSlash]_vars

\* ---------------------------------------------- PoSygEngine::get_statistics
\* the body of the omp for loop on one participant
count_one(st, p) ==
    [st EXCEPT
       !.honest_count = IF p.behavior = PARTICIPANT_HONEST THEN @ + 1 ELSE @,
       !.dishonest_count = IF p.behavior = PARTICIPANT_HONEST THEN @ ELSE @ + 1,
       !.total_rewards = @ + p.reward,
       !.total_penalties = @ + p.penalty,
       !.slashed_participants = IF p.slashed THEN @ + 1 ELSE @]

RECURSIVE scan_stats(_, _)
\* a thread's loop over its share ids of the records ps
scan_stats(ps, ids) ==
    IF ids = {} THEN ZeroStats
    ELSE LET i == CHOOSE x \in ids : TRUE
         IN count_one(scan_stats(ps, ids \ {i}), ps[i])

\* a merge that stores the thread's sums over local_stats
merge_stats_overwrite(local, thread) ==
    [local EXCEPT
       !.honest_count = thread.honest_count,
       !.dishonest_count = thread.dishonest_count,
       !.total_rewards = thread.total_rewards,
       !.total_penalties = thread.total_penalties,
       !.slashed_participants = thread.slashed_participants]

\* the omp critical section: thread_stats is added into local_stats
merge_stats(local, thread) ==
    [local EXCEPT
       !.honest_count = @ + thread.honest_count,
       !.dishonest_count = @ + thread.dishonest_count,
       !.total_rewards = @ + thread.total_rewards,
       !.total_penalties = @ + thread.total_penalties,
       !.slashed_participants = @ + thread.slashed_participants]

StatsFrame == <<ledgerVars, callerVars, registryVars, multisigVars, new_block,
                round_result, round_start, rounds, consensusVars,
                dynamic_synergy_gain, dynamic_penalty_increment,
                dynamic_conversion_rate, cycles, total_tokens, conv_pending,
                conv_rate, conv_start, appVars>>

\* get_statistics is entered: local_stats is zeroed and the parallel region
\* opens with nw threads; share says which thread runs which iteration.
StatsStart(nw, share) ==
    /\ round_pc = "idle"
    /\ \A i \in DOMAIN share : share[i] <= nw
    /\ round_pc' = "stats"
    /\ stat' = [share |-> share, pc |-> [w \in 1..nw |-> "scan"],
                thread_stats |-> [w \in 1..nw |-> ZeroStats],
                local_stats |-> ZeroStats, before |-> participants]
    /\ last' = Call("stats_start", TRUE)
    /\ UNCHANGED StatsFrame

\* thread w runs its iterations of the omp for (nowait: no barrier after it)
StatsScan(w) ==
    /\ round_pc = "stats"
    /\ w \in DOMAIN stat.pc
    /\ stat.pc[w] = "scan"
    /\ stat' = [stat EXCEPT
                  !.pc[w] = "merge",
                  !.thread_stats[w] =
                      scan_stats(participants,
                                 {i \in DOMAIN participants : stat.share[i] = w})]
    /\ UNCHANGED <<round_pc, last, StatsFrame>>

\* thread w runs the critical section
StatsMerge(w) ==
    /\ round_pc = "stats"
    /\ w \in DOMAIN stat.pc
    /\ stat.pc[w] = "merge"
    /\ stat' = [stat EXCEPT
                  !.pc[w] = "done",
                  !.local_stats = merge_stats(@, stat.thread_stats[w])]
    /\ UNCHANGED <<round_pc, last, StatsFrame>>

\* the parallel region has closed: local_stats is copied into the caller's
\* Stats and get_statistics returns
StatsEnd ==
    /\ round_pc = "stats"
    /\ \A w \in DOMAIN stat.pc : stat.pc[w] = "done"
    /\ round_pc' = "idle"
    /\ last' = [op |-> "get_statistics", ok |-> TRUE, stats |-> stat.local_stats]
    /\ stat' = NoStat
    /\ UNCHANGED StatsFrame

\* the registry with cycles, slashes and statistics
NextStats ==
    \/ RunCycle
    \/ \E i \in ActiveIds : ApplySlashCall(i)
    \/ \E i \in ActiveIds, c \in Contributions : UpdateEconomicActivity(i, c)
    \/ \E i \in ActiveIds, g \in GovernanceLevels : SetGovernanceActivity(i, g)
    \/ \E nw \in 1..MaxWorkers, share \in [DOMAIN participants -> 1..MaxWorkers] :
          StatsStart(nw, share)
    \/ \E w \in 1..MaxWorkers : StatsScan(w)
    \/ \E w \in 1..MaxWorkers : StatsMerge(w)
    \/ StatsEnd

\* ------------------------------------------------ the registry on its own
InitRegistry ==
    /\ InitLedger
    /\ InitCaller
    /\ InitNodeWith(NumParticipants, {})

NextRegistry ==
    \/ RunCycle
    \/ \E i \in ActiveIds : ApplySlashCall(i)
    \/ \E i \in ActiveIds : RestoreAfterSlashCall(i)
    \/ \E rate \in ConversionRates : ConvertStart(rate)
    \/ \E i \in DOMAIN participants : ConvertWorker(i)
    \/ ConvertEnd
    \/ \E i \in ActiveIds, c \in Contributions : UpdateEconomicActivity(i, c)
    \/ \E i \in ActiveIds, g \in GovernanceLevels : SetGovernanceActivity(i, g)
    \/ ValidateAndSlashCall

SpecRegistry == InitRegistry /\ [][NextRegistry]_vars

SpecStats == InitRegistry /\ [][NextStats]_vars

SpecActivity == InitRegistry /\ [][NextActivity]_vars

\* ----------------------------------------------- PoSygEngine::get_participant
\* ids a caller asks for: the valid ones and two past the end
LookupIds == 0..(NumParticipants + 1)

\* a lookup that reduces the id modulo the size instead of checking it
get_participant_wraps(id) ==
    [ok |-> TRUE, index |-> id % NumParticipants]

\* participants.at(participant_id): ok = FALSE is the std::out_of_range it
\* throws; index is the element the returned reference names
get_participant(id) ==
    IF id \in DOMAIN participants
    THEN [ok |-> TRUE, index |-> id]
    ELSE [ok |-> FALSE, index |-> id]

GetParticipantCall(id) ==
    /\ round_pc = "idle"
    /\ last' = [op |-> "get_participant", ok |-> get_participant(id).ok,
                id |-> id, index |-> get_participant(id).index]
    /\ UNCHANGED <<ledgerVars, callerVars, nodeVars>>

NextLookup ==
    \/ NextRegistry
    \/ \E id \in LookupIds : GetParticipantCall(id)

SpecLookup == InitRegistry /\ [][NextLookup]_vars

\* ------------------------------------------- Ledger::calculate_merkle_root
\* TxA carrying a memo, and a transfer whose sender and receiver split the
\* letters of TxA's differently
TxMemo == [TxA EXCEPT !.type = 1, !.data = "memo"]
TxSplit == [TxA EXCEPT !.sender = "ali", !.receiver = "cebob"]

MerkleTransactions == {TxA, TxB, TxForged, TxMemo, TxSplit}

RECURSIVE SeqsUpTo(_, _)
\* the sequences over S of length at most n
SeqsUpTo(S, n) ==
    IF n = 0 THEN {<< >>}
    ELSE LET shorter == SeqsUpTo(S, n - 1)
         IN shorter \cup {Append(q, x) : q \in shorter, x \in S}

MerkleInputs == SeqsUpTo(MerkleTransactions, MaxMerkleTxs)

\* std::to_string(double) of a whole amount: six decimals
to_string(amount) == ToString(amount) \o ".000000"

\* the leaf: Crypto::hash(tx.sender + tx.receiver + std::to_string(tx.amount)
\*                        + tx.signature)
merkle_leaf(tx) ==
    Crypto_hash(tx.sender \o tx.receiver \o to_string(tx.amount) \o tx.signature)

\* if (hashes.size() % 2 != 0) hashes.push_back(hashes.back())
merkle_pad(hashes) ==
    IF Len(hashes) % 2 # 0 THEN Append(hashes, Last(hashes)) ELSE hashes

RECURSIVE merkle_reduce(_)
\* the while loop: pad, pair, hash, until one hash is left.  Two digests have
\* the same length, so their concatenation is kept as the pair.
merkle_reduce(hashes) ==
    IF Len(hashes) <= 1 THEN hashes[1]
    ELSE LET padded == merkle_pad(hashes)
         IN merkle_reduce([i \in 1..(Len(padded) \div 2) |->
                              Crypto_hash(<<padded[2 * i - 1], padded[2 * i]>>)])

\* Ledger::calculate_merkle_root
calculate_merkle_root(txs) ==
    IF txs = << >> THEN EmptyHash
    ELSE merkle_reduce([i \in 1..Len(txs) |-> merkle_leaf(txs[i])])

CalculateMerkleRoot(txs) ==
    /\ last' = [op |-> "calculate_merkle_root", ok |-> TRUE, txs |-> txs,
                root |-> calculate_merkle_root(txs)]
    /\ UNCHANGED <<ledgerVars, callerVars, nodeVars>>

NextMerkle == \E txs \in MerkleInputs : CalculateMerkleRoot(txs)

SpecMerkle == Init /\ [][NextMerkle]_vars

\* --------------------------------------------------------------- Governance
\* proposal ids a caller names: the ones created and one that never is
ProposalIds == 1..(MaxProposals + 1)

\* Governance::get_proposal_by_id: the index of the first proposal with the
\* id, 0 for the null pointer
get_proposal_by_id(ps, proposal_id) ==
    LET hits == {k \in 1..Len(ps) : ps[k].id = proposal_id}
    IN IF hits = {} THEN 0 ELSE CHOOSE k \in hits : \A j \in hits : k <= j

\* Governance::create_proposal (the description is only printed)
create_proposal ==
    Append(proposals, [id |-> next_proposal_id, votes_for |-> 0,
                       votes_against |-> 0, is_active |-> TRUE])

\* a vote that does not look at the proposal's is_active flag
vote_on_closed(proposal_id, vote_for, participant_id) ==
    LET k == get_proposal_by_id(proposals, proposal_id)
    IN IF ~get_participant(participant_id).ok
       THEN [ok |-> FALSE, proposals |-> proposals]
       ELSE IF k # 0 /\ ~participants[participant_id].slashed
       THEN [ok |-> TRUE,
             proposals |->
                 IF vote_for
                 THEN [proposals EXCEPT
                         ![k].votes_for = @ + participants[participant_id].synergy]
                 ELSE [proposals EXCEPT
                         ![k].votes_against = @ + participants[participant_id].synergy]]
       ELSE [ok |-> TRUE, proposals |-> proposals]

\* Governance::vote: ok = FALSE is the std::out_of_range get_participant
\* throws for an unknown participant
vote(proposal_id, vote_for, participant_id) ==
    LET k == get_proposal_by_id(proposals, proposal_id)
    IN IF ~get_participant(participant_id).ok
       THEN [ok |-> FALSE, proposals |-> proposals]
       ELSE IF k # 0 /\ proposals[k].is_active
               /\ ~participants[participant_id].slashed
       THEN [ok |-> TRUE,
             proposals |->
                 IF vote_for
                 THEN [proposals EXCEPT
                         ![k].votes_for = @ + participants[participant_id].synergy]
                 ELSE [proposals EXCEPT
                         ![k].votes_against = @ + participants[participant_id].synergy]]
       ELSE [ok |-> TRUE, proposals |-> proposals]

\* Governance::finalize_proposal
finalize_proposal(proposal_id) ==
    LET k == get_proposal_by_id(proposals, proposal_id)
    IN IF k # 0 /\ proposals[k].is_active
       THEN [proposals EXCEPT ![k].is_active = FALSE]
       ELSE proposals

\* Governance::is_proposal_approved
is_proposal_approved(proposal_id) ==
    LET k == get_proposal_by_id(proposals, proposal_id)
    IN IF k # 0 /\ ~proposals[k].is_active
       THEN proposals[k].votes_for > proposals[k].votes_against
       ELSE FALSE

GovernanceFrame == <<ledgerVars, callerVars, registryVars, multisigVars, roundVars,
                     consensusVars, engineVars, subnetVars, node, vslash>>

CreateProposal ==
    /\ round_pc = "idle"
    /\ Len(proposals) < MaxProposals
    /\ proposals' = create_proposal
    /\ next_proposal_id' = next_proposal_id + 1
    /\ last' = Call("create_proposal", TRUE)
    /\ UNCHANGED GovernanceFrame

\* the tallies stay below MaxVotes votes of initial weight
Vote(proposal_id, vote_for, participant_id) ==
    /\ round_pc = "idle"
    /\ \A k \in 1..Len(proposals) :
          proposals[k].votes_for + proposals[k].votes_against
              < MaxVotes * INITIAL_SYNERGY * Scale
    /\ proposals' = vote(proposal_id, vote_for, participant_id).proposals
    /\ last' = [op |-> "vote", ok |-> vote(proposal_id, vote_for, participant_id).ok,
                proposal_id |-> proposal_id, vote_for |-> vote_for,
                participant_id |-> participant_id]
    /\ UNCHANGED <<GovernanceFrame, next_proposal_id>>

FinalizeProposal(proposal_id) ==
    /\ round_pc = "idle"
    /\ proposals' = finalize_proposal(proposal_id)
    /\ last' = [op |-> "finalize_proposal", ok |-> TRUE, proposal_id |-> proposal_id]
    /\ UNCHANGED <<GovernanceFrame, next_proposal_id>>

IsProposalApproved(proposal_id) ==
    /\ round_pc = "idle"
    /\ last' = [op |-> "is_proposal_approved", ok |-> TRUE,
                proposal_id |-> proposal_id,
                approved |-> is_proposal_approved(proposal_id)]
    /\ UNCHANGED <<GovernanceFrame, governanceVars>>

\* the Governance on a registry whose participants get slashed and restored
NextGovernance ==
    \/ CreateProposal
    \/ \E proposal_id \in ProposalIds, vote_for \in BOOLEAN,
          participant_id \in 0..NumParticipants :
          Vote(proposal_id, vote_for, participant_id)
    \/ \E proposal_id \in ProposalIds : FinalizeProposal(proposal_id)
    \/ \E proposal_id \in ProposalIds : IsProposalApproved(proposal_id)
    \/ \E i \in ActiveIds : ApplySlashCall(i)
    \/ \E i \in ActiveIds : RestoreAfterSlashCall(i)

SpecGovernance == InitRegistry /\ [][NextGovernance]_vars

\* ------------------------------------------------------------ SubnetManager
\* node ids handed to the SubnetManager
SubnetNodeIds == {1, 2, 3}

RECURSIVE least_loaded_from(_, _, _, _)
\* the loop of find_least_loaded_subnet from subnet_id on, over the map nodes;
\* size is min_size, or -1 while it is still numeric_limits<size_t>::max().
\* ok = FALSE is the std::out_of_range of subnet_nodes.at(subnet_id).
least_loaded_from(nodes, subnet_id, best, size) ==
    IF subnet_id >= total_subnets THEN [ok |-> TRUE, subnet |-> best]
    ELSE IF subnet_id \notin DOMAIN nodes THEN [ok |-> FALSE, subnet |-> best]
    ELSE IF size = -1 \/ Len(nodes[subnet_id]) < size
         THEN least_loaded_from(nodes, subnet_id + 1, subnet_id, Len(nodes[subnet_id]))
         ELSE least_loaded_from(nodes, subnet_id + 1, best, size)

\* SubnetManager::find_least_loaded_subnet on the map nodes
find_least_loaded_subnet(nodes) == least_loaded_from(nodes, 0, 0, -1)

\* subnet_nodes[subnet].push_back(n): operator[] creates a missing entry
PushNode(nodes, subnet, n) ==
    MapPut(nodes, subnet,
           Append(IF subnet \in DOMAIN nodes THEN nodes[subnet] ELSE << >>, n))

SubnetState(ok, map, nodes) == [ok |-> ok, map |-> map, nodes |-> nodes]

\* SubnetManager::assign_node_to_subnet: ok = FALSE is the exception that
\* leaves find_least_loaded_subnet
assign_node_to_subnet(n) ==
    LET f == find_least_loaded_subnet(subnet_nodes)
    IN IF f.ok
       THEN SubnetState(TRUE, MapPut(node_to_subnet_map, n, f.subnet),
                        PushNode(subnet_nodes, f.subnet, n))
       ELSE SubnetState(FALSE, node_to_subnet_map, subnet_nodes)

\* SubnetManager::get_node_subnet on the map m: ok = FALSE is the
\* std::runtime_error "Node not found in any subnet"
get_node_subnet(m, n) ==
    IF n \in DOMAIN m THEN [ok |-> TRUE, subnet |-> m[n]]
    ELSE [ok |-> FALSE, subnet |-> 0]

RECURSIVE move_excess(_, _, _)
\* the inner loop of rebalance_subnets: k nodes still to move out of subnet s
move_excess(st, s, k) ==
    IF k = 0 \/ ~st.ok THEN st
    ELSE LET node_to_move == Last(st.nodes[s])
             popped == [st.nodes EXCEPT ![s] = SubSeq(@, 1, Len(@) - 1)]
             f == find_least_loaded_subnet(popped)
         IN IF f.ok
            THEN move_excess(SubnetState(TRUE, MapPut(st.map, node_to_move, f.subnet),
                                         PushNode(popped, f.subnet, node_to_move)),
                             s, k - 1)
            ELSE SubnetState(FALSE, st.map, popped)

RECURSIVE rebalance_from(_, _)
\* the outer loop of rebalance_subnets over the keys of subnet_nodes from s on
rebalance_from(st, s) ==
    LET later == {t \in DOMAIN st.nodes : t >= s}
    IN IF later = {} \/ ~st.ok THEN st
       ELSE LET t == CHOOSE x \in later : \A y \in later : x <= y
                size == Len(st.nodes[t])
            IN rebalance_from(IF size > total_subnets
                              THEN move_excess(st, t, size - total_subnets)
                              ELSE st,
                              t + 1)

\* SubnetManager::rebalance_subnets
rebalance_subnets ==
    rebalance_from(SubnetState(TRUE, node_to_subnet_map, subnet_nodes), 0)

SubnetFrame == <<ledgerVars, callerVars, registryVars, multisigVars, roundVars,
                 consensusVars, engineVars, governanceVars, node, total_subnets,
                 vslash>>

AssignNodeToSubnet(n) ==
    /\ \A t \in DOMAIN subnet_nodes : Len(subnet_nodes[t]) < MaxSubnetNodes
    /\ node_to_subnet_map' = assign_node_to_subnet(n).map
    /\ subnet_nodes' = assign_node_to_subnet(n).nodes
    /\ last' = [op |-> "assign_node_to_subnet", ok |-> assign_node_to_subnet(n).ok,
                n |-> n]
    /\ UNCHANGED SubnetFrame

GetNodeSubnet(n) ==
    /\ last' = [op |-> "get_node_subnet", ok |-> get_node_subnet(node_to_subnet_map, n).ok,
                n |-> n, subnet |-> get_node_subnet(node_to_subnet_map, n).subnet]
    /\ UNCHANGED <<SubnetFrame, node_to_subnet_map, subnet_nodes>>

RebalanceSubnets ==
    /\ node_to_subnet_map' = rebalance_subnets.map
    /\ subnet_nodes' = rebalance_subnets.nodes
    /\ last' = Call("rebalance_subnets", rebalance_subnets.ok)
    /\ UNCHANGED SubnetFrame

\* SubnetManager::SubnetManager(total_subnets): both maps start empty
InitSubnet ==
    /\ InitLedger
    /\ InitCaller
    /\ InitNodeCore(1, {})
    /\ proposals = << >>
    /\ next_proposal_id = 1
    /\ total_subnets \in 0..MaxSubnets
    /\ node_to_subnet_map = << >>
    /\ subnet_nodes = << >>
    /\ node = NoNode

NextSubnet ==
    \/ \E n \in SubnetNodeIds : AssignNodeToSubnet(n)
    \/ \E n \in SubnetNodeIds : GetNodeSubnet(n)
    \/ RebalanceSubnets

SpecSubnet == InitSubnet /\ [][NextSubnet]_vars

\* --------------------------------------------------------------------- main
\* what main is started with: no arguments, or <node_id> <port>
MainPorts == {8080, 8081, 9000}

MainArgs ==
    {<< >>} \cup {<<id, port>> : id \in 1..MaxNodeId, port \in MainPorts}

\* how P2PProtocol::initialize can end: the socket calls succeed, or one of
\* them fails and setup_listen_socket throws
SocketOutcomes ==
    {"ok", "Failed to create socket", "Failed to set socket options",
     "Failed to bind socket", "Failed to listen on socket"}

\* NodeDiscovery::discover_nodes: the node ids it adds
KnownNodes == {1, 2, 3}

MainFrame == <<ledgerVars, callerVars, registryVars, multisigVars, roundVars,
               num_validators, current_block, slashing_penalty,
               reward_for_validators, engineVars, governanceVars, total_subnets,
               vslash>>

\* main is left: return 1 after the usage line, or the catch block's
\* "Error: " line and return 1
MainExit(report) == node' = [node EXCEPT !.pc = "exited", !.report = report]

\* main, lines 16-22: the command-line arguments
MainParseArgs ==
    /\ node.pc = "args"
    /\ IF node.args = << >>
       THEN MainExit("Usage")
       ELSE node' = [node EXCEPT !.pc = "p2p"]
    /\ last' = Call("main_args", node.args # << >>)
    /\ UNCHANGED <<MainFrame, peers, node_to_subnet_map, subnet_nodes>>

\* main, lines 26-31: the engine, then P2PProtocol::initialize(port)
MainP2PInitialize(outcome) ==
    /\ node.pc = "p2p"
    /\ IF outcome = "ok"
       THEN node' = [node EXCEPT !.pc = "discover"]
       ELSE MainExit(outcome)
    /\ last' = Call("p2p_initialize", outcome = "ok")
    /\ UNCHANGED <<MainFrame, peers, node_to_subnet_map, subnet_nodes>>

\* main, lines 34-38: one turn of the loop over get_known_nodes(), in key
\* order: add_peer
MainAddPeer ==
    /\ node.pc = "discover"
    /\ KnownNodes \ peers # {}
    /\ peers' = peers \cup {CHOOSE p \in KnownNodes \ peers :
                               \A q \in KnownNodes \ peers : p <= q}
    /\ last' = Call("add_peer", TRUE)
    /\ UNCHANGED <<MainFrame, node, node_to_subnet_map, subnet_nodes>>

\* main, lines 40-48: the Ledger, the Governance and the SubnetManager are
\* constructed
MainConstruct ==
    /\ node.pc = "discover"
    /\ KnownNodes \ peers = {}
    /\ node' = [node EXCEPT !.pc = "subnet"]
    /\ last' = Call("main_construct", TRUE)
    /\ UNCHANGED <<MainFrame, peers, node_to_subnet_map, subnet_nodes>>

\* One turn of main's while loop (lines 52-81) on the ledger and the network
\* as they stand: whether its round fails, whether main is left, and what the
\* catch block prints.  run_cycle does not throw; the block handed to add_block
\* is a copy of get_latest_block(); add_block throws when it does not fit and send_message
\* when peer 2 is unknown; an exception leaves the loop for the catch block of
\* line 76.
main_iteration ==
    LET latest == Last(chain)
    IN IF validate_chain.ok /\ ~add_block(latest).ok
       THEN [round_failed |-> TRUE, exits |-> TRUE,
             report |-> "Block does not fit the current chain tip!"]
       ELSE IF validate_chain.ok /\ ~send_message_ok(2)
       THEN [round_failed |-> TRUE, exits |-> TRUE,
             report |-> "Peer address not found"]
       ELSE [round_failed |-> FALSE, exits |-> FALSE, report |-> "none"]

\* main, line 49 and on: subnet_manager.assign_node_to_subnet(node_id), then
\* the first turn of the loop
MainAssignAndLoop ==
    /\ node.pc = "subnet"
    /\ node_to_subnet_map' = assign_node_to_subnet(node.args[1]).map
    /\ subnet_nodes' = assign_node_to_subnet(node.args[1]).nodes
    /\ IF ~assign_node_to_subnet(node.args[1]).ok
       THEN MainExit("map::at")
       ELSE IF main_iteration.exits
       THEN MainExit(main_iteration.report)
       ELSE node' = [node EXCEPT !.pc = "sleep"]
    /\ last' = Call("assign_node_to_subnet", assign_node_to_subnet(node.args[1]).ok)
    /\ UNCHANGED <<MainFrame, peers>>

InitMain ==
    /\ InitLedger
    /\ InitCaller
    /\ InitNodeCore(1, {})
    /\ proposals = << >>
    /\ next_proposal_id = 1
    /\ total_subnets = MainSubnets
    /\ node_to_subnet_map = << >>
    /\ subnet_nodes = << >>
    /\ \E args \in MainArgs : node = [pc |-> "args", args |-> args, report |-> "none"]

NextMain ==
    \/ MainParseArgs
    \/ \E outcome \in SocketOutcomes : MainP2PInitialize(outcome)
    \/ MainAddPeer
    \/ MainConstruct
    \/ MainAssignAndLoop

SpecMain == InitMain /\ [][NextMain]_vars

\* ------------------------------- the registry with the coordinator's rounds
NextRegistryRounds ==
    \/ NextRegistry
    \/ RoundStart
    \/ \E ts \in Timestamps : RoundDraft(ts)
    \/ RoundValidate
    \/ RoundSlash
    \/ RoundReward

SpecRegistryRounds == InitRegistry /\ [][NextRegistryRounds]_vars

\* ===================================================================== claims
\* The predicate the specification gives for a well-formed block sequence:
\* every block after the first links to the stored hash of its predecessor
\* and stores the hash of its own contents.
LinkedAndSelfConsistent(seq) ==
    \A i \in 2..Len(seq) :
        /\ seq[i].previous_block_hash = seq[i - 1].block_hash
        /\ seq[i].block_hash = HashOfContents(seq[i])

\* C1: in every reachable Ledger state every adjacent pair of the main chain
\* and of every fork sequence is linked by previous_block_hash, and every such
\* block's stored hash equals the hash recomputed from its contents.
C1_ChainAndForksWellFormed ==
    /\ LinkedAndSelfConsistent(chain)
    /\ \A t \in DOMAIN forks : LinkedAndSelfConsistent(forks[t])

\* C2: add_block(b) succeeds exactly when b.previous_block_hash equals the
\* current tip hash; on success the chain is the old chain with b appended,
\* the height grows by one and the tip hash becomes b's stored hash.
C2_AddBlockAppendsOnTipMatch ==
    [][last'.op = "add_block" =>
         /\ last'.ok <=> (blk.previous_block_hash = current_chain_tip_hash)
         /\ last'.ok =>
              /\ chain' = Append(chain, blk)
              /\ current_block_number' = current_block_number + 1
              /\ current_chain_tip_hash' = blk.block_hash]_vars

C2_Witness ==
    /\ last.op = "add_block"
    /\ last.ok
    /\ Len(chain) = 3
    /\ current_chain_tip_hash = chain[3].block_hash

\* C3: add_block(b) with a previous hash different from the tip hash fails and
\* leaves the chain, the height, the tip hash, the forks (with their lengths
\* and difficulties) and the confirmation map as they were.
C3_RejectedAddBlockChangesNothing ==
    [][(last'.op = "add_block" /\ blk.previous_block_hash # current_chain_tip_hash)
         => (~last'.ok /\ UNCHANGED ledgerVars)]_vars

C3_Witness ==
    /\ last.op = "add_block"
    /\ ~last.ok
    /\ Len(chain) = 2
    /\ DOMAIN forks # {}
    /\ DOMAIN confirmed_blocks # {}

\* C4: validate_chain() returns true if and only if every adjacent pair of the
\* main chain is linked and the later block's stored hash equals the hash
\* freshly recomputed from its contents (stored hashes as they are when the
\* call starts).
C4_ValidateChainDecidesWellFormedness ==
    [][last'.op = "validate_chain" =>
         (last'.ok <=> LinkedAndSelfConsistent(chain))]_vars

\* C5: once validate_chain has accepted a chain and the content of a
\* transaction inside any of its blocks is then changed, with the stored
\* hashes left as they were, validate_chain returns false.
C5_TamperingIsDetected ==
    [][(last.op = "tamper" /\ last.ok /\ last'.op = "validate_chain")
         => ~last'.ok]_vars

\* C6: sign_block appends the signature and returns true iff the signature
\* count was below required_signatures before the call, and otherwise returns
\* false and leaves the block as it was; the count never exceeds
\* required_signatures, and the block is verified exactly when the count has
\* reached required_signatures.
C6_SignBlockUpToThreshold ==
    /\ [](/\ Len(blk.validator_signatures) <= blk.required_signatures
          /\ verify_signatures(blk) <=>
                (Len(blk.validator_signatures) = blk.required_signatures))
    /\ [][last'.op = "sign_block" =>
            /\ last'.ok <=> (Len(blk.validator_signatures) < blk.required_signatures)
            /\ last'.ok =>
                 \E sig \in CallerSignatures :
                     blk' = [blk EXCEPT !.validator_signatures = Append(@, sig)]
            /\ ~last'.ok => blk' = blk]_vars

\* The third call on a block that requires two signatures: refused, verified.
C6_Witness ==
    /\ last.op = "sign_block"
    /\ ~last.ok
    /\ blk.required_signatures = 2
    /\ Len(blk.validator_signatures) = 2
    /\ verify_signatures(blk)

\* C7: in handle_multisig with V validator iterations on a block that needs R
\* signatures, under every interleaving the collected count never exceeds R,
\* it is min(V, R) once every iteration has finished, and the block is
\* reported verified iff V >= R.
C7_MultisigNeverExceedsThreshold ==
    /\ [](round_pc = "multisig" =>
            /\ Len(block_copy.validator_signatures) <= block_copy.required_signatures
            /\ (\A i \in Validators : ms_pc[i] = "done") =>
                  Len(block_copy.validator_signatures) =
                      Min(num_validators, block_copy.required_signatures))
    /\ [][last'.op = "handle_multisig_end" =>
            (ms_report' = "verified"
                <=> num_validators >= block_copy.required_signatures)]_vars

\* Three iterations raced for two places: the flag is set, two have signed.
C7_Witness ==
    /\ round_pc = "multisig"
    /\ num_validators = 3
    /\ block_copy.required_signatures = 2
    /\ \A i \in Validators : ms_pc[i] = "done"
    /\ block_signed
    /\ Len(block_copy.validator_signatures) = 2

\* C9: finalize_block on a verified block that names the ledger's tip appends
\* it through add_block: the main chain is the old chain with that block
\* appended and the tip hash is the block's hash.
C9_FinalizeAppendsToLedger ==
    [][(/\ last'.op = "finalize_block"
        /\ last'.ok
        /\ verify_signatures(current_block')
        /\ current_block'.previous_block_hash = current_chain_tip_hash)
         => /\ chain' = Append(chain, current_block')
            /\ current_chain_tip_hash' = current_block'.block_hash]_vars

\* C10: a round whose drafted block validate_block rejected leaves the ledger
\* and every participant record as they were when the round started.
C10_RejectedRoundLeavesStateAlone ==
    (last.op = "initiate_consensus" /\ round_result = "rejected")
        => /\ participants = round_start.participants
           /\ ledgerVars = round_start.ledger

\* C11: under run_cycle, apply_slash, restore_after_slash,
\* convert_synergy_to_tokens and the coordinator's validate_and_slash and
\* distribute_rewards, a participant whose slashed flag is set has synergy
\* exactly 0, and a slashed participant's synergy becomes non-zero only in a
\* restore_after_slash call, which clears the flag.
C11_SlashedHasZeroSynergy ==
    /\ [](\A i \in DOMAIN participants :
            participants[i].slashed => participants[i].synergy = 0)
    /\ [][\A i \in DOMAIN participants :
            (participants[i].slashed /\ participants'[i].synergy # 0)
                => (last'.op = "restore_after_slash" /\ ~participants'[i].slashed)]_vars

\* After a coordinator round, a run_cycle has left one participant slashed
\* and another one with synergy.
C11_Witness ==
    /\ last.op = "run_cycle"
    /\ rounds > 0
    /\ \E i, j \in DOMAIN participants :
          /\ participants[i].slashed
          /\ participants[i].synergy = 0
          /\ ~participants[j].slashed
          /\ participants[j].synergy > 0

\* C12: after every run_cycle and every other registry operation no
\* participant's synergy is negative.
C12_SynergyNeverNegative ==
    \A i \in DOMAIN participants : participants[i].synergy >= 0

\* A run_cycle has just charged a dishonest participant whose synergy a
\* conversion had set to 0 (with economic_activity 1 the only synergy below
\* the charge of 10 is 0), and the result is 0, not -10.
C12_Witness ==
    /\ last.op = "run_cycle"
    /\ cycles = 1
    /\ \E i \in DOMAIN participants :
          /\ participants[i].behavior = PARTICIPANT_DISHONEST
          /\ ~participants[i].slashed
          /\ participants[i].economic_activity = 1
          /\ participants[i].penalty = PENALTY_INCREMENT * Scale
          /\ participants[i].synergy = 0

\* C13: rollback_chain(k) returns false and changes nothing when k is at
\* least the chain length; otherwise it removes exactly the last k blocks,
\* lowers the height by k and sets the tip hash to the stored hash of the new
\* last block; forks and confirmations stay as they were.
C13_RollbackTruncates ==
    [][last'.op = "rollback_chain" =>
         LET k == last'.k
         IN /\ last'.ok <=> (k < Len(chain))
            /\ ~last'.ok => UNCHANGED ledgerVars
            /\ last'.ok =>
                 /\ chain' = SubSeq(chain, 1, Len(chain) - k)
                 /\ current_block_number' = current_block_number - k
                 /\ current_chain_tip_hash' = chain'[Len(chain')].block_hash
                 /\ UNCHANGED <<forks, fork_lengths, fork_difficulties,
                                confirmed_blocks>>]_vars

\* Two blocks were rolled back off a chain of three while a fork and a
\* confirmation were on record.
C13_Witness ==
    /\ last.op = "rollback_chain"
    /\ last.ok
    /\ last.k = 2
    /\ Len(chain) = 1
    /\ DOMAIN forks # {}
    /\ DOMAIN confirmed_blocks # {}

\* C14: from a ledger built with add_block (validate_chain calls in
\* between), rollback_chain(k) with k below the chain length followed by
\* add_block of the k removed blocks in their order succeeds for every block
\* and restores the chain length and the tip hash.
C14_RollbackThenReaddRestores ==
    (readd.phase = "readd" /\ readd.pending = << >>)
        => /\ readd.ok
           /\ Len(chain) = readd.len
           /\ current_chain_tip_hash = readd.tip

\* C15: select_fork(tip) for a known fork returns true, makes the main chain
\* the old chain followed by the fork's blocks in order, sets the tip hash to
\* the stored hash of the new last block and raises the height by the number
\* of blocks appended (the height add_block would have reached); for an
\* unknown tip select_fork and validate_fork return false and leave the
\* ledger unchanged.
C15_SelectForkAppendsFork ==
    [][/\ last'.op = "select_fork" =>
            /\ last'.ok <=> (last'.tip \in DOMAIN forks)
            /\ ~last'.ok => UNCHANGED ledgerVars
            /\ last'.ok =>
                 /\ chain' = chain \o forks[last'.tip]
                 /\ current_chain_tip_hash' = chain'[Len(chain')].block_hash
                 /\ current_block_number' =
                        current_block_number + Len(forks[last'.tip])
       /\ (last'.op = "validate_fork" /\ last'.tip \notin DOMAIN forks) =>
            (~last'.ok /\ UNCHANGED ledgerVars)]_vars

\* C16: in every reachable ledger state the block create_new_block drafts has
\* block_number equal to the chain length, required_signatures 2 and
\* previous_block_hash equal to the ledger's tip hash, so that add_block on
\* the unchanged ledger accepts it.
C16_DraftLinksToTip ==
    last.op = "create_new_block" =>
        /\ blk.block_number = Len(chain)
        /\ blk.required_signatures = 2
        /\ blk.previous_block_hash = current_chain_tip_hash
        /\ add_block(blk).ok

\* C17: chain mutations are single-writer: when two add_block calls race with
\* blocks that both name the tip hash as their previous hash, then once both
\* have returned exactly one block has been appended and the other call was
\* rejected with the chain-linkage error.
C17_RacingAddBlockAppendsOne ==
    (/\ \A w \in Writers : writers[w].pc = "done"
     /\ \A w \in Writers : writers[w].block.previous_block_hash = last.tip)
        => /\ Len(chain) = last.len + 1
           /\ \E w \in Writers :
                 /\ writers[w].result = "appended"
                 /\ \A v \in Writers \ {w} : writers[v].result = "rejected"

\* C18: apply_slash is idempotent: on a participant that is not slashed it
\* sets slashed, adds 100 to penalty and sets synergy to 0; on a slashed
\* participant it changes nothing, so a second call in a row on the same
\* participant leaves the registry as the first call left it.
C18_ApplySlashIdempotent ==
    [][last'.op = "apply_slash" =>
         LET i == last'.id
             p == participants[i]
         IN /\ \A j \in DOMAIN participants \ {i} : participants'[j] = participants[j]
            /\ DOMAIN participants' = DOMAIN participants
            /\ ~p.slashed =>
                 participants'[i] =
                     [p EXCEPT !.slashed = TRUE,
                               !.penalty = p.penalty + SLASH_PENALTY * Scale,
                               !.synergy = 0]
            /\ p.slashed => participants'[i] = p
            /\ (last.op = "apply_slash" /\ last.id = i) =>
                 participants' = participants]_vars

C18_Witness ==
    /\ last.op = "apply_slash"
    /\ last.was_slashed
    /\ participants[last.id].slashed
    /\ participants[last.id].synergy = 0
    /\ participants[last.id].penalty = SLASH_PENALTY * Scale

\* C19: restore_after_slash on a slashed participant clears slashed and sets
\* synergy to 50, leaving reward, penalty, violations_count and every other
\* field as they were; on a participant that is not slashed it changes
\* nothing.
C19_RestoreAfterSlash ==
    [][last'.op = "restore_after_slash" =>
         LET i == last'.id
             p == participants[i]
         IN /\ \A j \in DOMAIN participants \ {i} : participants'[j] = participants[j]
            /\ DOMAIN participants' = DOMAIN participants
            /\ p.slashed =>
                 participants'[i] =
                     [p EXCEPT !.slashed = FALSE,
                               !.synergy = INITIAL_RESTORE_SYNERGY * Scale]
            /\ ~p.slashed => participants'[i] = p]_vars

C19_Witness ==
    /\ last.op = "restore_after_slash"
    /\ last.was_slashed
    /\ ~participants[last.id].slashed
    /\ participants[last.id].synergy = INITIAL_RESTORE_SYNERGY * Scale
    /\ participants[last.id].penalty >= SLASH_PENALTY * Scale

\* C20: when every iteration of convert_synergy_to_tokens(rate) has run, in
\* whatever order, each participant that was not slashed has synergy 0 and is
\* otherwise as before, each slashed participant is unchanged, and the total is
\* the sum over the non-slashed participants of pre-call synergy times rate;
\* a call that directly follows another conversion returns 0.
C20_ConvertSumsAndZeroes ==
    (round_pc = "convert" /\ conv_pending = {}) =>
        LET before == conv_start.participants
        IN /\ DOMAIN participants = DOMAIN before
           /\ \A i \in DOMAIN before :
                 participants[i] = IF before[i].slashed
                                   THEN before[i]
                                   ELSE [before[i] EXCEPT !.synergy = 0]
           /\ total_tokens = SumSynergy(before, DOMAIN before) * conv_rate
           /\ conv_start.follows_conversion => total_tokens = 0

C20_Witness ==
    /\ round_pc = "convert"
    /\ conv_pending = {}
    /\ total_tokens > 0
    /\ \E i \in DOMAIN participants : participants[i].slashed
    /\ \E i \in DOMAIN participants :
          /\ ~participants[i].slashed
          /\ conv_start.participants[i].synergy > 0
          /\ participants[i].synergy = 0

\* C21: get_statistics is race-free: for any number of threads, any split of
\* the iterations among them and any order of their merges, once every thread
\* has merged, local_stats holds the sequential aggregates over all N
\* participants (so honest_count + dishonest_count = N, also after a cycle),
\* and while the call runs no participant record changes.
C21_StatisticsAreSequentialAggregates ==
    round_pc = "stats" =>
        /\ participants = stat.before
        /\ (\A w \in DOMAIN stat.pc : stat.pc[w] = "done") =>
             LET ids == DOMAIN participants
                 st == stat.local_stats
             IN /\ st.honest_count =
                      Cardinality({i \in ids :
                                     participants[i].behavior = PARTICIPANT_HONEST})
                /\ st.dishonest_count =
                      Cardinality({i \in ids :
                                     participants[i].behavior # PARTICIPANT_HONEST})
                /\ st.slashed_participants =
                      Cardinality({i \in ids : participants[i].slashed})
                /\ st.total_rewards = scan_stats(participants, ids).total_rewards
                /\ st.total_penalties = scan_stats(participants, ids).total_penalties
                /\ st.honest_count + st.dishonest_count = NumParticipants

C21_Witness ==
    /\ round_pc = "stats"
    /\ cycles > 0
    /\ DOMAIN stat.pc = 1..MaxWorkers
    /\ \A w \in DOMAIN stat.pc : stat.pc[w] = "done"
    /\ \A w \in DOMAIN stat.pc : \E i \in DOMAIN participants : stat.share[i] = w
    /\ stat.local_stats.dishonest_count > 0
    /\ stat.local_stats.honest_count > 0
    /\ stat.local_stats.total_penalties > 0
    /\ stat.local_stats.total_rewards > 0

\* C22: get_participant(id) with id >= N fails with the bounds error and
\* leaves the registry unchanged (with id < N it returns participant id);
\* before and after every step the registry holds exactly the participants
\* with ids 0..N-1.
C22_FixedIdSpaceAndCheckedLookup ==
    [][/\ last'.op = "get_participant" =>
            /\ participants' = participants
            /\ last'.id >= NumParticipants => ~last'.ok
            /\ last'.id < NumParticipants => (last'.ok /\ last'.index = last'.id)
       /\ DOMAIN participants = 0..(NumParticipants - 1)
       /\ DOMAIN participants' = 0..(NumParticipants - 1)
       /\ \A i \in DOMAIN participants' : participants'[i].id = i]_vars

C22_Witness ==
    /\ last.op = "get_participant"
    /\ last.id >= NumParticipants
    /\ ~last.ok
    /\ cycles > 0
    /\ \E i \in DOMAIN participants : participants[i].slashed

\* C23: in every reachable Ledger state the block numbers along the main
\* chain and along every fork sequence are strictly increasing.
C23_BlockNumbersStrictlyIncrease ==
    /\ \A i \in 1..(Len(chain) - 1) :
          chain[i].block_number < chain[i + 1].block_number
    /\ \A t \in DOMAIN forks :
          \A i \in 1..(Len(forks[t]) - 1) :
              forks[t][i].block_number < forks[t][i + 1].block_number

\* C26: on a SubnetManager with total_subnets >= 1, assign_node_to_subnet(n)
\* succeeds and puts n into a subnet that had the fewest nodes (a subnet
\* without an entry has none); afterwards get_node_subnet(n) returns a subnet
\* id in [0, total_subnets) whose node list contains n; and rebalance_subnets
\* completes without error.
C26_AssignPlacesNodeInLeastLoaded ==
    [][total_subnets >= 1 =>
         /\ last'.op = "assign_node_to_subnet" =>
              LET g == get_node_subnet(node_to_subnet_map', last'.n)
                  size(t) == IF t \in DOMAIN subnet_nodes
                             THEN Len(subnet_nodes[t]) ELSE 0
              IN /\ last'.ok
                 /\ g.ok
                 /\ g.subnet \in 0..(total_subnets - 1)
                 /\ g.subnet \in DOMAIN subnet_nodes'
                 /\ \E k \in 1..Len(subnet_nodes'[g.subnet]) :
                       subnet_nodes'[g.subnet][k] = last'.n
                 /\ \A t \in 0..(total_subnets - 1) : size(g.subnet) <= size(t)
         /\ last'.op = "rebalance_subnets" => last'.ok]_vars

\* C24: in the node loop a failed round (add_block rejecting the produced
\* block with the chain-linkage error) is reported and the node goes on to
\* the next cycle: on the ledger and network main has set up, a turn of the
\* loop whose round fails does not leave the loop.
C24_FailedRoundDoesNotEndLoop ==
    node.pc = "subnet" => (main_iteration.round_failed => ~main_iteration.exits)

\* C25: calculate_merkle_root is order-sensitive: a sequence that is a
\* permutation of the given one, differs from it in some position and does
\* not pad to the same sequence has a different root; the empty sequence has
\* the empty root, and a sequence of odd length has the root of the sequence
\* with its last transaction duplicated.
C25_MerkleRootIsOrderSensitive ==
    last.op = "calculate_merkle_root" =>
        LET txs == last.txs
            Count(q, x) == Cardinality({i \in 1..Len(q) : q[i] = x})
            IsPermutation(q) ==
                /\ Len(q) = Len(txs)
                /\ \A x \in MerkleTransactions : Count(q, x) = Count(txs, x)
        IN /\ txs = << >> <=> last.root = EmptyHash
           /\ (Len(txs) > 1 /\ Len(txs) % 2 # 0) =>
                 last.root = calculate_merkle_root(Append(txs, Last(txs)))
           /\ \A other \in MerkleInputs :
                 (/\ IsPermutation(other)
                  /\ other # txs
                  /\ merkle_pad(other) # merkle_pad(txs))
                     => calculate_merkle_root(other) # last.root

\* C27: vote adds the voter's current synergy to the chosen tally only when
\* the proposal exists, is active and the voter is not slashed, and otherwise
\* leaves both tallies alone; no Governance call changes a participant
\* record; a proposal is reported approved only once it has been finalized
\* (which only finalize_proposal does) and only if votes_for > votes_against.
C27_VoteWeighsSynergyAndWritesNothingBack ==
    [][/\ last'.op \in {"create_proposal", "vote", "finalize_proposal",
                        "is_proposal_approved"} => participants' = participants
       /\ last'.op = "vote" =>
            LET k == get_proposal_by_id(proposals, last'.proposal_id)
                id == last'.participant_id
            IN IF /\ k # 0
                  /\ proposals[k].is_active
                  /\ id \in DOMAIN participants
                  /\ ~participants[id].slashed
               THEN /\ Len(proposals') = Len(proposals)
                    /\ \A j \in 1..Len(proposals) : j # k => proposals'[j] = proposals[j]
                    /\ proposals'[k] =
                         IF last'.vote_for
                         THEN [proposals[k] EXCEPT
                                 !.votes_for = @ + participants[id].synergy]
                         ELSE [proposals[k] EXCEPT
                                 !.votes_against = @ + participants[id].synergy]
               ELSE proposals' = proposals
       /\ (last'.op = "is_proposal_approved" /\ last'.approved) =>
            \E k \in 1..Len(proposals) :
                /\ proposals[k].id = last'.proposal_id
                /\ ~proposals[k].is_active
                /\ proposals[k].votes_for > proposals[k].votes_against
       /\ \A k \in 1..Len(proposals) :
            (proposals[k].is_active /\ ~proposals'[k].is_active)
                => (last'.op = "finalize_proposal" /\ last'.proposal_id = proposals[k].id)
      ]_vars

C27_Witness ==
    /\ last.op = "vote"
    /\ last.ok
    /\ participants[last.participant_id].slashed
    /\ \E k \in 1..Len(proposals) :
          /\ proposals[k].id = last.proposal_id
          /\ proposals[k].is_active
          /\ proposals[k].votes_for > 0
          /\ proposals[k].votes_against = 0

\* C28: in the per-participant update of one run_cycle, a participant that was
\* not slashed and has economic_activity e gains 10*e synergy and 5*e reward
\* when it draws Honest; when it draws Dishonest it loses 10*e synergy (not
\* below 0) and gains 5*e penalty, and with e > 4 and governance_activity > 2
\* it gains 10 + 100 more penalty, is slashed and has synergy 0; a participant
\* that was slashed keeps synergy, reward, penalty and the slashed flag.  The
\* drawn behaviour is the one the cycle stores in the record.
C28_RunCyclePerParticipantUpdate ==
    [][cycles' = cycles + 1 =>
         \A i \in DOMAIN participants :
            LET p == participants[i]
                q == participants'[i]
                e == p.economic_activity
                lowered == IF p.synergy - 10 * e * Scale < 0
                           THEN 0 ELSE p.synergy - 10 * e * Scale
            IN IF p.slashed
               THEN q = [p EXCEPT !.behavior = q.behavior]
               ELSE IF q.behavior = PARTICIPANT_HONEST
               THEN q = [p EXCEPT !.behavior = PARTICIPANT_HONEST,
                                  !.synergy = @ + 10 * e * Scale,
                                  !.reward = @ + 5 * e * Scale]
               ELSE IF e > 4 /\ p.governance_activity > 2
               THEN q = [p EXCEPT !.behavior = PARTICIPANT_DISHONEST,
                                  !.synergy = 0,
                                  !.penalty = @ + (5 * e + 10 + 100) * Scale,
                                  !.slashed = TRUE]
               ELSE q = [p EXCEPT !.behavior = PARTICIPANT_DISHONEST,
                                  !.synergy = lowered,
                                  !.penalty = @ + 5 * e * Scale]]_vars

C28_Witness ==
    /\ last.op = "run_cycle"
    /\ cycles = 1
    /\ \E i \in DOMAIN participants :
          /\ participants[i].behavior = PARTICIPANT_DISHONEST
          /\ participants[i].economic_activity > 4
          /\ participants[i].governance_activity > 2
          /\ participants[i].slashed
          /\ participants[i].penalty = (5 * participants[i].economic_activity + 110) * Scale
    /\ \E i \in DOMAIN participants :
          /\ participants[i].behavior = PARTICIPANT_HONEST
          /\ ~participants[i].slashed
          /\ participants[i].reward > 0

\* C29: the proportional reward step of run_cycle adds
\* (synergy_i / total non-slashed synergy) * total_economic_activity to the
\* reward of every non-slashed participant i, adds nothing to a slashed one,
\* changes no synergy, and changes no reward when the total is 0.  The step
\* runs last in the cycle, on the synergies and slashed flags the cycle ends
\* with; the reward it starts from is the one the per-participant update left.
C29_ProportionalRewardStep ==
    [][cycles' = cycles + 1 =>
         LET updated == process_slashing(
                            [i \in DOMAIN participants |->
                                update_synergy([participants[i] EXCEPT
                                    !.behavior = participants'[i].behavior])])
             total == SumSynergy(updated, DOMAIN updated)
         IN \A i \in DOMAIN participants :
               LET q == participants'[i]
                   share == (updated[i].synergy * total_economic_activity * Scale)
                                \div total
               IN /\ q.synergy = updated[i].synergy
                  /\ q.slashed = updated[i].slashed
                  /\ q.reward = IF total > 0 /\ ~updated[i].slashed
                                THEN updated[i].reward + share
                                ELSE updated[i].reward]_vars

C29_Witness ==
    /\ last.op = "run_cycle"
    /\ cycles = 1
    /\ SumSynergy(participants, DOMAIN participants) > 0
    /\ \E i \in DOMAIN participants : participants[i].slashed
    /\ \E i \in DOMAIN participants :
          ~participants[i].slashed /\ participants[i].synergy > 0

\* C30: after every step, each fork tip t present in forks has fork_lengths[t]
\* equal to the number of blocks of forks[t] and fork_difficulties[t] equal to
\* the difficulty times that number; a step that adds a block to a fork, under
\* a tip seen before or not, leaves the fork one block longer under that tip
\* and leaves the main chain, the height and the tip hash as they were.
C30_ForkBookkeeping ==
    [][
        /\ \A t \in DOMAIN forks' :
              /\ t \in DOMAIN fork_lengths'
              /\ t \in DOMAIN fork_difficulties'
              /\ fork_lengths'[t] = Len(forks'[t])
              /\ fork_difficulties'[t] = Difficulty * Len(forks'[t])
        /\ (last'.op = "add_fork_block") =>
              /\ \E u \in ForkTips :
                    /\ u \in DOMAIN forks'
                    /\ forks'[u] = Append(IF u \in DOMAIN forks THEN forks[u]
                                                               ELSE << >>, blk)
              /\ chain' = chain
              /\ current_block_number' = current_block_number
              /\ current_chain_tip_hash' = current_chain_tip_hash
    ]_vars

C30_Witness ==
    /\ last.op = "add_fork_block"
    /\ \E t \in DOMAIN forks :
          /\ Len(forks[t]) = MaxForkLen
          /\ fork_lengths[t] = MaxForkLen
          /\ fork_difficulties[t] = Difficulty * MaxForkLen
    /\ Len(chain) > 1

\* C31: a prune_forks call removes exactly the forks whose tracked length is
\* more than 10 blocks behind the chain height (fork_lengths[t] + 10 below the
\* height) and keeps every other fork; while the height is at most 10 it
\* removes none.
C31_PruneForksEvictsOnlyBehindWindow ==
    [][
        (last'.op = "prune_forks") =>
            /\ DOMAIN forks' =
                  {t \in DOMAIN forks :
                      ~(fork_lengths[t] + PruneWindow < current_block_number)}
            /\ \A t \in DOMAIN forks' : forks'[t] = forks[t]
            /\ current_block_number <= PruneWindow => forks' = forks
    ]_vars

C33_ValidateAndSlashIsOrderIndependent ==
    (last.op = "validate_and_slash" /\ last.ok /\ "before" \in DOMAIN last) =>
        LET before == last.before
            suspicious(i) == /\ i \in Validators
                             /\ before[i].economic_activity > 4
                             /\ before[i].governance_activity > 2
        IN /\ DOMAIN participants = DOMAIN before
           /\ \A i \in DOMAIN before :
                 IF suspicious(i)
                 THEN /\ participants[i].slashed
                      /\ participants[i].synergy = 0
                      /\ participants[i] =
                            IF before[i].slashed
                            THEN before[i]
                            ELSE [before[i] EXCEPT
                                     !.slashed = TRUE,
                                     !.synergy = 0,
                                     !.penalty = @ + SLASH_PENALTY * Scale]
                 ELSE participants[i] = before[i]

C33_Witness ==
    /\ last.op = "validate_and_slash"
    /\ last.ok
    /\ "before" \in DOMAIN last
    /\ num_validators = NumParticipants
    /\ \A i \in DOMAIN participants :
          /\ ~last.before[i].slashed
          /\ last.before[i].synergy > 0
          /\ participants[i].slashed
          /\ participants[i].synergy = 0

\* C34: across run_cycle, apply_slash, restore_after_slash,
\* convert_synergy_to_tokens, update_economic_activity with any contribution,
\* the coordinator's distribute_rewards and validate_and_slash, no step lowers
\* the reward or the penalty of any participant.
C34_RewardAndPenaltyNeverDecrease ==
    [][\A i \in DOMAIN participants :
           /\ participants'[i].reward >= participants[i].reward
           /\ participants'[i].penalty >= participants[i].penalty]_vars

\* C35: after any sequence of update_economic_activity calls with any
\* contributions, the economic_activity of every participant is within
\* 0..MAX_ECONOMIC_ACTIVITY.
C35_EconomicActivityWithinBounds ==
    \A i \in DOMAIN participants :
        participants[i].economic_activity \in 0..MAX_ECONOMIC_ACTIVITY

\* C36: in every reachable Ledger state the tracked height
\* current_block_number is the length of the main chain minus 1 (the genesis
\* block has height 0).
C36_HeightIsChainLengthMinusOne ==
    current_block_number = Len(chain) - 1

\* C37: in every reachable Ledger state the tracked tip hash
\* current_chain_tip_hash is the hash stored in the last block of the main
\* chain, the value get_latest_block().get_block_hash() returns.
C37_TipHashIsLastStoredHash ==
    current_chain_tip_hash = Last(chain).block_hash

\* C38: validate_chain and validate_fork are pure reads: a validation leaves
\* the main chain, the forks, the tip hash and the stored hash of every block
\* as they were.
C38_ValidationsArePureReads ==
    [][
        (last'.op \in {"validate_chain", "validate_fork"}) =>
            /\ chain' = chain
            /\ forks' = forks
            /\ current_chain_tip_hash' = current_chain_tip_hash
    ]_vars

\* C39: in a consensus round on a ledger whose last block has a non-empty
\* stored hash (a freshly constructed ledger is one), the block drafted by
\* create_new_block is accepted by validate_block and the round goes on to
\* signature collection.
C39_RoundDraftIsAccepted ==
    [][
        (round_pc = "validate" /\ last'.op = "validate_block"
            /\ Last(chain).block_hash # EmptyHash) =>
            /\ last'.ok
            /\ round_result' = "validated"
            /\ round_pc' = "multisig"
    ]_vars

\* C40: every consensus round terminates.  With no more validators than
\* registry participants, a round that has started returns from
\* initiate_consensus without an error, whatever the order of the validator
\* workers; and a signature collection that has started ends, each of the
\* num_validators iterations making at most one attempt.
C40_EveryRoundTerminates ==
    /\ (round_pc = "draft" /\ num_validators <= NumParticipants)
          ~> (round_pc = "idle" /\ last.op = "initiate_consensus")
    /\ (round_pc = "multisig")
          ~> (round_pc # "multisig" /\ last.op = "handle_multisig_end")

C40_Witness ==
    /\ round_pc = "idle"
    /\ last.op = "initiate_consensus"
    /\ rounds = MaxRounds
    /\ num_validators = NumParticipants

====
